---- MODULE Spec2Model ----
(***************************************************************************)
(* Real-estate analytics pipeline: the ETL function (process_csv,          *)
(* normalize_dataframe, create_dimension_tables, load_fact_table) and the  *)
(* analytics function (generate_report, execute_analytical_queries,        *)
(* generate_html_report).                                                  *)
(*                                                                         *)
(* Strings are sequences of one-character strings, so that lower(),        *)
(* strip(), title(), split() and the substring test `in` are computed.     *)
(***************************************************************************)
EXTENDS Integers, Sequences, FiniteSets, TLC

VARIABLES
    \* --- categorizer (pure function, driven by SpecCat) ---
    type_name,        \* argument of categorize_property
    category,         \* its result, or NoValue before the call
    variant,          \* which of the two implementations was applied
    \* --- analytics function (generate_report) ---
    rpc,              \* position of the reporting run
    qi,               \* index of the next query of the loop over queries.items()
    results,          \* the results dict of execute_analytical_queries
    queryLog,         \* the calls bigquery_client.query made, with their outcome
    html_report,      \* sections rendered by generate_html_report
    response,         \* (body, status code) returned by generate_report
    raisedAt,         \* the step of generate_report that raised, if any
    reportStore,      \* objects of the reports bucket
    \* --- ETL function (process_csv) and the warehouse ---
    run,              \* per invocation of process_csv: position and locals
    dim_location,     \* warehouse table dim_location
    dim_property_type, \* warehouse table dim_property_type
    dim_date,         \* warehouse table dim_date
    fact_listings,    \* warehouse table fact_listings
    downloads,        \* names of the objects downloaded from the landing bucket
    writeLog,         \* the load jobs that completed, in order
    \* --- normalize_dataframe and the location dimension on one batch ---
    raw_df,           \* the raw batch handed to normalize_dataframe
    norm_out,         \* what normalize_dataframe returned or raised
    norm_log,         \* the counts normalize_dataframe printed
    loc_out,          \* the location table create_dimension_tables built
    clock             \* the reading of datetime.utcnow()

catVars == <<type_name, category, variant>>

reportVars == <<rpc, qi, results, queryLog, html_report, response, raisedAt, reportStore>>

etlVars == <<run, dim_location, dim_property_type, dim_date, fact_listings,
             downloads, writeLog>>

batchVars == <<raw_df, norm_out, norm_log, loc_out, clock>>

vars == <<type_name, category, variant,
          rpc, qi, results, queryLog, html_report, response, raisedAt, reportStore,
          run, dim_location, dim_property_type, dim_date, fact_listings,
          downloads, writeLog, raw_df, norm_out, norm_log, loc_out, clock>>

NoValue == "<none>"

\* Body applied to the value of e
With(e, Body(_)) == CHOOSE y \in {Body(x) : x \in {e}} : TRUE

(***************************************************************************)
(* Python string primitives                                                *)
(***************************************************************************)
Uppers == <<"A","B","C","D","E","F","G","H","I","J","K","L","M",
            "N","O","P","Q","R","S","T","U","V","W","X","Y","Z">>

Lowers == <<"a","b","c","d","e","f","g","h","i","j","k","l","m",
            "n","o","p","q","r","s","t","u","v","w","x","y","z">>

IsUpper(c) == \E i \in 1..Len(Uppers) : Uppers[i] = c

IsLower(c) == \E i \in 1..Len(Lowers) : Lowers[i] = c

IsCased(c) == IsUpper(c) \/ IsLower(c)

LowerChar(c) ==
    IF IsUpper(c) THEN Lowers[CHOOSE i \in 1..Len(Uppers) : Uppers[i] = c] ELSE c

UpperChar(c) ==
    IF IsLower(c) THEN Uppers[CHOOSE i \in 1..Len(Lowers) : Lowers[i] = c] ELSE c

\* str.lower()
lower(s) == [i \in 1..Len(s) |-> LowerChar(s[i])]

\* str.upper()
upper(s) == [i \in 1..Len(s) |-> UpperChar(s[i])]

\* the substring test `p in s`
contains(s, p) ==
    \E i \in 0..(Len(s) - Len(p)) : SubSeq(s, i + 1, i + Len(p)) = p

\* str.endswith(p)
endswith(s, p) ==
    /\ Len(s) >= Len(p)
    /\ SubSeq(s, Len(s) - Len(p) + 1, Len(s)) = p

\* characters str.strip() removes
IsSpace(c) == c \in {" ", "\t", "\n"}

\* str.strip()
RECURSIVE lstrip(_)
lstrip(s) == IF s # <<>> /\ IsSpace(Head(s)) THEN lstrip(Tail(s)) ELSE s

RECURSIVE rstrip(_)
rstrip(s) ==
    IF s # <<>> /\ IsSpace(s[Len(s)]) THEN rstrip(SubSeq(s, 1, Len(s) - 1)) ELSE s

strip(s) == rstrip(lstrip(s))

\* str.title(): a cased character is upper-cased when the character before it
\* is not cased, and lower-cased when it is
title(s) ==
    [i \in 1..Len(s) |->
        IF ~IsCased(s[i]) THEN s[i]
        ELSE IF i > 1 /\ IsCased(s[i - 1]) THEN LowerChar(s[i])
        ELSE UpperChar(s[i])]

\* position of the first "," of s, 0 when there is none
FirstComma(s) ==
    IF \E i \in 1..Len(s) : s[i] = ","
    THEN CHOOSE i \in 1..Len(s) : s[i] = "," /\ \A j \in 1..(i - 1) : s[j] # ","
    ELSE 0

(***************************************************************************)
(* Dates: a timestamp is [days since 1970-01-01, seconds of the day]       *)
(***************************************************************************)
Digits == <<"0","1","2","3","4","5","6","7","8","9">>

IsDigit(c) == \E i \in 1..Len(Digits) : Digits[i] = c

DigitVal(c) == (CHOOSE i \in 1..Len(Digits) : Digits[i] = c) - 1

RECURSIVE ParseInt(_)
ParseInt(s) ==
    IF s = <<>> THEN 0
    ELSE 10 * ParseInt(SubSeq(s, 1, Len(s) - 1)) + DigitVal(s[Len(s)])

AllDigits(s) == \A i \in 1..Len(s) : IsDigit(s[i])

IsLeap(y) == (y % 4 = 0 /\ y % 100 # 0) \/ y % 400 = 0

DaysInMonth(y, m) ==
    IF m = 2 THEN (IF IsLeap(y) THEN 29 ELSE 28)
    ELSE IF m \in {4, 6, 9, 11} THEN 30 ELSE 31

\* days since 1970-01-01 of the civil date y-m-d (proleptic Gregorian, y >= 1)
days_from_civil(y, m, d) ==
    LET yy  == IF m <= 2 THEN y - 1 ELSE y
        era == yy \div 400
        yoe == yy - era * 400
        mp  == IF m > 2 THEN m - 3 ELSE m + 9
        doy == (153 * mp + 2) \div 5 + d - 1
        doe == yoe * 365 + yoe \div 4 - yoe \div 100 + doy
    IN  era * 146097 + doe - 719468

\* the civil date [y, m, d] of a day number
civil_from_days(z) ==
    LET zz  == z + 719468
        era == zz \div 146097
        doe == zz - era * 146097
        yoe == (doe - doe \div 1460 + doe \div 36524 - doe \div 146096) \div 365
        doy == doe - (365 * yoe + yoe \div 4 - yoe \div 100)
        mp  == (5 * doy + 2) \div 153
        d   == doy - (153 * mp + 2) \div 5 + 1
        m   == IF mp < 10 THEN mp + 3 ELSE mp - 9
        y   == yoe + era * 400
    IN  [y |-> IF m <= 2 THEN y + 1 ELSE y, m |-> m, d |-> d]

\* NaT, the result of pd.to_datetime(errors='coerce') on an unparseable cell
NaT == [days |-> -1, secs |-> -1]

\* pd.to_datetime on an ISO cell: "YYYY-MM-DD" or "YYYY-MM-DD HH:MM:SS"
to_datetime(s) ==
    LET dateOk ==
            /\ Len(s) \in {10, 19}
            /\ AllDigits(SubSeq(s, 1, 4)) /\ s[5] = "-"
            /\ AllDigits(SubSeq(s, 6, 7)) /\ s[8] = "-"
            /\ AllDigits(SubSeq(s, 9, 10))
        y == ParseInt(SubSeq(s, 1, 4))
        m == ParseInt(SubSeq(s, 6, 7))
        d == ParseInt(SubSeq(s, 9, 10))
        civilOk == y >= 1970 /\ m \in 1..12 /\ d >= 1 /\ d <= DaysInMonth(y, m)
        timeOk ==
            Len(s) = 19 =>
                /\ s[11] \in {" ", "T"}
                /\ AllDigits(SubSeq(s, 12, 13)) /\ s[14] = ":"
                /\ AllDigits(SubSeq(s, 15, 16)) /\ s[17] = ":"
                /\ AllDigits(SubSeq(s, 18, 19))
                /\ ParseInt(SubSeq(s, 12, 13)) < 24
                /\ ParseInt(SubSeq(s, 15, 16)) < 60
                /\ ParseInt(SubSeq(s, 18, 19)) < 60
        secs == IF Len(s) = 19
                THEN 3600 * ParseInt(SubSeq(s, 12, 13))
                     + 60 * ParseInt(SubSeq(s, 15, 16)) + ParseInt(SubSeq(s, 18, 19))
                ELSE 0
    IN  IF dateOk /\ civilOk /\ timeOk
        THEN [days |-> days_from_civil(y, m, d), secs |-> secs]
        ELSE NaT

\* t1 <= t2 on timestamps
TsLeq(t1, t2) == t1.days < t2.days \/ (t1.days = t2.days /\ t1.secs <= t2.secs)

\* dt.strftime('%Y%m%d').astype(int)
yyyymmdd(t) ==
    LET c == civil_from_days(t.days) IN c.y * 10000 + c.m * 100 + c.d

\* dt.dayofweek, Monday = 0 (1970-01-01 was a Thursday)
dayofweek(t) == (t.days + 3) % 7

\* dt.quarter
quarter(t) == (civil_from_days(t.days).m - 1) \div 3 + 1

(***************************************************************************)
(* normalize_dataframe, deployed variant.                                  *)
(* A dataframe is a sequence of rows.  Numbers are fixed-point with two    *)
(* decimals (800000 is 80000000); NaN marks a missing numeric cell and     *)
(* NaNStr a missing text cell.                                             *)
(***************************************************************************)
Fx == 100

NaN == -2000000000

NaNStr == <<"<NaN>">>

isna(x) == x = NaN

s_Unknown == <<"U","n","k","n","o","w","n">>

\* ascending insertion of x in the sorted sequence s
RECURSIVE Insert(_, _)
Insert(x, s) ==
    IF s = <<>> THEN <<x>>
    ELSE IF x <= Head(s) THEN <<x>> \o s
    ELSE <<Head(s)>> \o Insert(x, Tail(s))

RECURSIVE Sorted(_)
Sorted(s) ==
    IF s = <<>> THEN <<>>
    ELSE With(Sorted(Tail(s)), LAMBDA rest : Insert(Head(s), rest))

\* the non-missing values of a column
Column(df, col) ==
    LET vals == [i \in 1..Len(df) |-> df[i][col]]
        Present(v) == ~isna(v)
    IN  SelectSeq(vals, Present)

\* Series.median(): NaN for an all-missing column
median(df, col) ==
    With(Sorted(Column(df, col)), LAMBDA v :
        LET n == Len(v)
        IN  IF n = 0 THEN NaN
            ELSE IF n % 2 = 1 THEN v[(n + 1) \div 2]
            ELSE (v[n \div 2] + v[n \div 2 + 1]) \div 2)

\* Series.mean() in the place of Series.median()
fill_numeric_mean(df, col) ==
    With(Column(df, col), LAMBDA v :
        LET Value(i) == v[i]
            RECURSIVE Total(_)
            Total(n) == IF n = 0 THEN 0 ELSE Total(n - 1) + Value(n) \div Fx
        IN  IF v = <<>> THEN df
            ELSE With(Fx * (Total(Len(v)) \div Len(v)), LAMBDA mean_val :
                 [i \in 1..Len(df) |->
                     IF isna(df[i][col]) THEN [df[i] EXCEPT ![col] = mean_val] ELSE df[i]]))

\* the loop over numeric_columns: fillna(median) when a value is missing
fill_numeric(df, col) ==
    IF \E i \in 1..Len(df) : isna(df[i][col])
    THEN With(median(df, col), LAMBDA median_val :
         [i \in 1..Len(df) |->
             IF isna(df[i][col]) THEN [df[i] EXCEPT ![col] = median_val] ELSE df[i]])
    ELSE df

\* fillna('Unknown') then .str.strip() alone
standardize_text_striponly(v) == strip(IF v = NaNStr THEN s_Unknown ELSE v)

\* fillna('Unknown') then .str.strip().str.title()
standardize_text(v) == title(strip(IF v = NaNStr THEN s_Unknown ELSE v))

\* 4 * Series.quantile(num/4), linear interpolation between order statistics
quantile_x4(v, num) ==
    LET n   == Len(v)
        pos == num * (n - 1)
        lo  == pos \div 4 + 1
        rem == pos % 4
    IN  IF rem = 0 THEN 4 * v[lo]
        ELSE 4 * v[lo] + rem * (v[lo + 1] - v[lo])

\* 8 * lower_bound and 8 * upper_bound of the price fence
lower_bound_x8(v) ==
    LET Q1 == quantile_x4(v, 1)
        Q3 == quantile_x4(v, 3)
    IN  2 * Q1 - 3 * (Q3 - Q1)

upper_bound_x8(v) ==
    LET Q1 == quantile_x4(v, 1)
        Q3 == quantile_x4(v, 3)
    IN  2 * Q3 + 3 * (Q3 - Q1)

\* (price / sqft).round(1)
price_per_sqft_onedecimal(price, sqft) ==
    LET a   == price \div sqft
        t   == 10 * (price % sqft)
        q   == t \div sqft
        rem == t % sqft
        up  == 2 * rem > sqft \/ (2 * rem = sqft /\ q % 2 = 1)
    IN  Fx * a + 10 * (q + (IF up THEN 1 ELSE 0))

\* price / sqft cut after two decimals instead of rounded
price_per_sqft_truncated(price, sqft) ==
    Fx * (price \div sqft) + (Fx * (price % sqft)) \div sqft

\* (price / sqft).round(2), round-half-even, for price >= 0 and sqft > 0
price_per_sqft(price, sqft) ==
    LET a   == price \div sqft
        t   == Fx * (price % sqft)
        q   == t \div sqft
        rem == t % sqft
        up  == 2 * rem > sqft \/ (2 * rem = sqft /\ q % 2 = 1)
    IN  Fx * a + q + (IF up THEN 1 ELSE 0)

utcnow == "utcnow"

None == "None"

\* STEP 1: parse list_date and drop the rows whose date is NaT
step_dates(raw) ==
    LET parsed == [i \in 1..Len(raw) |->
                      [raw[i] EXCEPT !.list_date = to_datetime(raw[i].list_date)]]
        HasDate(r) == r.list_date # NaT
    IN  SelectSeq(parsed, HasDate)

\* STEP 3: the two text columns
step_text(df) ==
    [i \in 1..Len(df) |->
        [df[i] EXCEPT !.location = standardize_text(df[i].location),
                      !.property_type = standardize_text(df[i].property_type)]]

\* STEP 4: astype('Int64') refuses a non-integral value
cast_fails(df) ==
    \E i \in 1..Len(df) : ~isna(df[i].bedrooms) /\ df[i].bedrooms % Fx # 0

\* STEP 4: dropna(subset=['price', 'sqft'])
step_critical(df) ==
    LET Critical(r) == ~isna(r.price) /\ ~isna(r.sqft)
    IN  SelectSeq(df, Critical)

\* STEP 5 without the removal
step_outliers_keep(df) == df

\* STEP 5: drop the rows whose price is outside the fence
step_outliers(df) ==
    IF df = <<>> THEN df
    ELSE With(Sorted([i \in 1..Len(df) |-> df[i].price]), LAMBDA prices :
         With(<<lower_bound_x8(prices), upper_bound_x8(prices)>>, LAMBDA bound :
              LET Inlier(r) == ~(8 * r.price < bound[1] \/ 8 * r.price > bound[2])
              IN  SelectSeq(df, Inlier)))

\* "Also ensure reasonable minimums"; a comparison with a missing value is false
step_minimums(df) ==
    LET Sane(r) == /\ r.price > 0
                   /\ r.sqft > 0
                   /\ ~isna(r.bedrooms) /\ r.bedrooms >= 0
                   /\ ~isna(r.bathrooms) /\ r.bathrooms > 0
    IN  SelectSeq(df, Sane)

\* STEPS 6-8: derived fields, keys, metadata
step_derived(df) ==
    [i \in 1..Len(df) |->
        [ list_date      |-> df[i].list_date,
          location       |-> df[i].location,
          property_type  |-> df[i].property_type,
          price          |-> df[i].price,
          bedrooms       |-> df[i].bedrooms,
          bathrooms      |-> df[i].bathrooms,
          sqft           |-> df[i].sqft,
          price_per_sqft |-> price_per_sqft(df[i].price, df[i].sqft),
          date_key       |-> yyyymmdd(df[i].list_date),
          created_at     |-> utcnow,
          updated_at     |-> utcnow,
          listing_status |-> "Active",
          lot_size       |-> None ]]

\* STEPS 1-8 of normalize_dataframe: the rows that survive, and whether the
\* Int64 cast of bedrooms is refused
normalize_steps(raw) ==
    With(step_dates(raw), LAMBDA dated :
    With(fill_numeric(dated, "price"), LAMBDA f1 :
    With(fill_numeric(f1, "sqft"), LAMBDA f2 :
    With(fill_numeric(f2, "bedrooms"), LAMBDA f3 :
    With(fill_numeric(f3, "bathrooms"), LAMBDA f4 :
    With(step_text(f4), LAMBDA txt :
    With(step_critical(txt), LAMBDA crit :
    With(step_outliers(crit), LAMBDA inl :
    With(step_minimums(inl), LAMBDA sane :
        [castFails |-> cast_fails(txt), rows |-> step_derived(sane)])))))))))

\* normalize_dataframe without STEP 9: an empty result is returned
normalize_dataframe_noraise(raw) ==
    With(normalize_steps(raw), LAMBDA n :
    IF n.castFails THEN [raised |-> TRUE, error |-> "TypeError", rows |-> <<>>]
    ELSE [raised |-> FALSE, error |-> None, rows |-> n.rows])

normalize_dataframe(raw) ==
    With(normalize_steps(raw), LAMBDA n :
    IF n.castFails THEN [raised |-> TRUE, error |-> "TypeError", rows |-> <<>>]
    \* STEP 9
    ELSE IF Len(n.rows) = 0
    THEN [raised |-> TRUE, error |-> "ValueError: All rows were filtered out", rows |-> <<>>]
    ELSE [raised |-> FALSE, error |-> None, rows |-> n.rows])

\* the rows on which STEP 5 computes the quartiles
rows_at_outlier_stage(raw) ==
    With(step_dates(raw), LAMBDA dated :
    With(fill_numeric(dated, "price"), LAMBDA f1 :
    With(fill_numeric(f1, "sqft"), LAMBDA f2 :
    With(fill_numeric(f2, "bedrooms"), LAMBDA f3 :
    With(fill_numeric(f3, "bathrooms"), LAMBDA f4 :
        step_critical(step_text(f4)))))))

\* number of missing cells of a column
missing_count(df, col) == Cardinality({i \in 1..Len(df) : isna(df[i][col])})

\* the message the loop over numeric_columns prints for col, if any
fill_message(df, col) ==
    IF missing_count(df, col) > 0
    THEN << [stage |-> "filled " \o col, count |-> missing_count(df, col)] >>
    ELSE <<>>

\* a normalize_dataframe that prints nothing
normalize_prints_silent(raw) == <<>>

\* what normalize_dataframe prints about rows: the rows removed for their
\* date, the cells filled, the outliers removed, and the final summary; the
\* messages after STEP 4 are not reached when the Int64 cast raises
normalize_prints(raw) ==
    With(step_dates(raw), LAMBDA dated :
    With(fill_numeric(dated, "price"), LAMBDA f1 :
    With(fill_numeric(f1, "sqft"), LAMBDA f2 :
    With(fill_numeric(f2, "bedrooms"), LAMBDA f3 :
    With(fill_numeric(f3, "bathrooms"), LAMBDA f4 :
    With(step_text(f4), LAMBDA txt :
    With(step_critical(txt), LAMBDA crit :
    With(step_outliers(crit), LAMBDA inl :
    With(step_minimums(inl), LAMBDA sane :
        (IF Len(raw) - Len(dated) > 0
         THEN << [stage |-> "invalid dates", count |-> Len(raw) - Len(dated)] >>
         ELSE <<>>)
        \o fill_message(dated, "price") \o fill_message(f1, "sqft")
        \o fill_message(f2, "bedrooms") \o fill_message(f3, "bathrooms")
        \o (IF cast_fails(txt) THEN <<>>
            ELSE (IF Len(crit) - Len(inl) > 0
                  THEN << [stage |-> "outliers", count |-> Len(crit) - Len(inl)] >>
                  ELSE <<>>)
                 \o << [stage |-> "original rows", count |-> Len(raw)],
                       [stage |-> "final rows", count |-> Len(sane)],
                       [stage |-> "removed", count |-> Len(raw) - Len(sane)] >>)
    )))))))))

(***************************************************************************)
(* normalize_dataframe, variant of src/transform.py                        *)
(***************************************************************************)
\* Series.mode()[0]: the smallest of the most frequent values; the column has
\* at least one value
mode(df, col) ==
    With(Column(df, col), LAMBDA v :
        LET count(x) == Cardinality({i \in 1..Len(v) : v[i] = x})
            vals     == {v[i] : i \in 1..Len(v)}
            top      == {x \in vals : \A y \in vals : count(y) <= count(x)}
        IN  CHOOSE x \in top : \A y \in top : x <= y)

\* fillna(value) on one column
fillna(df, col, value) ==
    [i \in 1..Len(df) |-> IF isna(df[i][col]) THEN [df[i] EXCEPT ![col] = value] ELSE df[i]]

\* fillna('Unknown') then .str.title().str.strip()
standardize_text_root(v) == strip(title(IF v = NaNStr THEN s_Unknown ELSE v))

\* (price / sqft).round(2) without the checks of the deployed variant: the
\* inf, -inf or NaN of a zero or missing operand is the missing marker here
price_per_sqft_root(price, sqft) ==
    IF isna(price) \/ isna(sqft) \/ sqft <= 0 \/ price < 0 THEN NaN
    ELSE price_per_sqft(price, sqft)

\* "4. Remove outliers": a comparison with a missing quartile or price is false
step_outliers_root(df) ==
    With(Sorted(Column(df, "price")), LAMBDA prices :
        IF prices = <<>> THEN df
        ELSE With(<<lower_bound_x8(prices), upper_bound_x8(prices)>>, LAMBDA bound :
             LET Inlier(r) == ~(8 * r.price < bound[1] \/ 8 * r.price > bound[2])
             IN  SelectSeq(df, Inlier)))

\* steps 1-3 of the variant: dates, imputation, text
rows_at_outlier_stage_root(raw) ==
    With(step_dates(raw), LAMBDA dated :
    With(fillna(dated, "price", median(dated, "price")), LAMBDA f1 :
    With(fillna(f1, "sqft", median(f1, "sqft")), LAMBDA f2 :
    With(fillna(f2, "bedrooms", mode(f2, "bedrooms")), LAMBDA f3 :
    With(fillna(f3, "bathrooms", median(f3, "bathrooms")), LAMBDA f4 :
        [i \in 1..Len(f4) |->
            [f4[i] EXCEPT !.location = standardize_text_root(f4[i].location),
                          !.property_type = standardize_text_root(f4[i].property_type)]]
    )))))

\* normalize_dataframe of src/transform.py; mode()[0] raises on a bedrooms
\* column without a value
normalize_dataframe_root(raw) ==
    IF Column(step_dates(raw), "bedrooms") = <<>>
    THEN [raised |-> TRUE, error |-> "KeyError", rows |-> <<>>]
    ELSE With(step_outliers_root(rows_at_outlier_stage_root(raw)), LAMBDA df :
         [raised |-> FALSE, error |-> None,
          rows |-> [i \in 1..Len(df) |->
                      [ list_date      |-> df[i].list_date,
                        location       |-> df[i].location,
                        property_type  |-> df[i].property_type,
                        price          |-> df[i].price,
                        bedrooms       |-> df[i].bedrooms,
                        bathrooms      |-> df[i].bathrooms,
                        sqft           |-> df[i].sqft,
                        price_per_sqft |-> price_per_sqft_root(df[i].price, df[i].sqft),
                        date_key       |-> yyyymmdd(df[i].list_date),
                        created_at     |-> utcnow ]]])

(***************************************************************************)
(* categorize_property, deployed variant                                   *)
(***************************************************************************)
w_apartment == <<"a","p","a","r","t","m","e","n","t">>
w_flat      == <<"f","l","a","t">>
w_studio    == <<"s","t","u","d","i","o">>
w_villa     == <<"v","i","l","l","a">>
w_house     == <<"h","o","u","s","e">>
w_townhouse == <<"t","o","w","n","h","o","u","s","e">>
w_penthouse == <<"p","e","n","t","h","o","u","s","e">>

categorize_property(t) ==
    LET type_lower == lower(t) IN
    IF contains(type_lower, w_apartment) \/ contains(type_lower, w_flat)
            \/ contains(type_lower, w_studio)
    THEN "Residential-Apartment"
    ELSE IF contains(type_lower, w_villa) \/ contains(type_lower, w_house)
    THEN "Residential-House"
    ELSE IF contains(type_lower, w_townhouse)
    THEN "Residential-Townhouse"
    ELSE IF contains(type_lower, w_penthouse)
    THEN "Residential-Luxury"
    ELSE "Other"

\* categorize_property, repository-root variant (no studio, no penthouse rule)
categorize_property_root(t) ==
    IF contains(lower(t), w_apartment) \/ contains(lower(t), w_flat)
    THEN "Residential-Apartment"
    ELSE IF contains(lower(t), w_villa) \/ contains(lower(t), w_house)
    THEN "Residential-House"
    ELSE IF contains(lower(t), w_townhouse)
    THEN "Residential-Townhouse"
    ELSE "Other"

(***************************************************************************)
(* create_dimension_tables, deployed variant: the three tables it builds   *)
(***************************************************************************)
NoneStr == <<"<None>">>

\* drop_duplicates(keep='last'): the last occurrence of each value, in order
RECURSIVE drop_duplicates_keep_last(_)
drop_duplicates_keep_last(s) ==
    IF s = <<>> THEN <<>>
    ELSE With(drop_duplicates_keep_last(Tail(s)), LAMBDA rest :
             IF \E i \in 1..Len(rest) : rest[i] = Head(s) THEN rest
             ELSE <<Head(s)>> \o rest)

\* DataFrame.drop_duplicates(): the first occurrence of each value, in order
RECURSIVE drop_duplicates(_)
drop_duplicates(s) ==
    IF s = <<>> THEN <<>>
    ELSE With(drop_duplicates(SubSeq(s, 1, Len(s) - 1)), LAMBDA init :
             IF \E i \in 1..Len(init) : init[i] = s[Len(s)] THEN init
             ELSE Append(init, s[Len(s)]))

build_locations(df) ==
    With(drop_duplicates([i \in 1..Len(df) |-> df[i].location]), LAMBDA locations :
    With(\E i \in 1..Len(locations) : FirstComma(locations[i]) > 0, LAMBDA anyComma :
    LET city(l)   == IF ~anyComma THEN l
                     ELSE IF FirstComma(l) > 0
                          THEN strip(SubSeq(l, 1, FirstComma(l) - 1))
                          ELSE strip(l)
        state(l)  == IF anyComma /\ FirstComma(l) > 0
                     THEN strip(SubSeq(l, FirstComma(l) + 1, Len(l)))
                     ELSE NoneStr
    IN  [i \in 1..Len(locations) |->
            [ location_id |-> i,
              location    |-> locations[i],
              city        |-> city(locations[i]),
              state       |-> state(locations[i]),
              zip_code    |-> None,
              region      |-> "UAE",
              created_at  |-> utcnow ]]))

\* the location table of src/load.py: split(',', n=1, expand=True) yields one
\* column when no location has a comma, and the assignment to the two columns
\* ['city', 'state'] raises
build_locations_root(df) ==
    With(drop_duplicates([i \in 1..Len(df) |-> df[i].location]), LAMBDA locations :
        IF \A i \in 1..Len(locations) : FirstComma(locations[i]) = 0
        THEN [raised |-> TRUE, error |-> "ValueError: Columns must be same length as key",
              rows |-> <<>>]
        ELSE [raised |-> FALSE, error |-> None,
              rows |-> [i \in 1..Len(locations) |->
                  LET l == locations[i] IN
                  [ location_id |-> i,
                    location    |-> l,
                    city        |-> IF FirstComma(l) > 0
                                    THEN strip(SubSeq(l, 1, FirstComma(l) - 1))
                                    ELSE strip(l),
                    state       |-> IF FirstComma(l) > 0
                                    THEN strip(SubSeq(l, FirstComma(l) + 1, Len(l)))
                                    ELSE NoneStr,
                    created_at  |-> utcnow ]]])

build_property_types(df) ==
    With(drop_duplicates([i \in 1..Len(df) |-> df[i].property_type]),
         LAMBDA property_types :
        [i \in 1..Len(property_types) |->
            [ property_type_id |-> i,
              property_type    |-> property_types[i],
              type_name        |-> property_types[i],
              category         |-> categorize_property(property_types[i]),
              created_at       |-> utcnow ]])

MonthNames ==
    << "January", "February", "March", "April", "May", "June", "July",
       "August", "September", "October", "November", "December" >>

DayNames ==
    << "Monday", "Tuesday", "Wednesday", "Thursday", "Friday", "Saturday", "Sunday" >>

\* df['list_date'].min() and .max()
min_date(df) ==
    LET i == CHOOSE i \in 1..Len(df) :
                 \A j \in 1..Len(df) : TsLeq(df[i].list_date, df[j].list_date)
    IN  df[i].list_date

max_date(df) ==
    LET i == CHOOSE i \in 1..Len(df) :
                 \A j \in 1..Len(df) : TsLeq(df[j].list_date, df[i].list_date)
    IN  df[i].list_date

\* pd.date_range(start, end, freq='D'): start, start + 1 day, ... while <= end
date_range(start, end) ==
    LET n == IF end.secs >= start.secs
             THEN end.days - start.days + 1
             ELSE end.days - start.days
    IN  [k \in 1..n |-> [days |-> start.days + k - 1, secs |-> start.secs]]

build_dates(df) ==
    With(date_range(min_date(df), max_date(df)), LAMBDA full_date :
        [k \in 1..Len(full_date) |->
            [ full_date   |-> full_date[k],
              date_id     |-> yyyymmdd(full_date[k]),
              year        |-> civil_from_days(full_date[k].days).y,
              month       |-> civil_from_days(full_date[k].days).m,
              month_name  |-> MonthNames[civil_from_days(full_date[k].days).m],
              quarter     |-> quarter(full_date[k]),
              day_of_week |-> dayofweek(full_date[k]),
              day_name    |-> DayNames[dayofweek(full_date[k]) + 1],
              is_weekend  |-> dayofweek(full_date[k]) \in {5, 6} ]])

(***************************************************************************)
(* load_fact_table: the fact rows it appends                               *)
(***************************************************************************)
RECURSIVE Concat(_)
Concat(ss) == IF ss = <<>> THEN <<>> ELSE Head(ss) \o Concat(Tail(ss))

\* left.merge(right[[right_on, id]]) with the default how='inner': a left row
\* without a match is dropped
merge_inner(left, right, left_on, right_on, id) ==
    LET joined(l) ==
            LET Match(r) == r[right_on] = l[left_on]
                hits == SelectSeq(right, Match)
            IN  [j \in 1..Len(hits) |-> (id :> hits[j][id]) @@ l]
    IN  Concat([i \in 1..Len(left) |-> joined(left[i])])

\* left.merge(right[[right_on, id]], how='left'): every left row, once per
\* matching right row, and once with a null id when nothing matches
merge_left(left, right, left_on, right_on, id) ==
    LET joined(l) ==
            LET Match(r) == r[right_on] = l[left_on]
                hits == SelectSeq(right, Match)
            IN  IF hits = <<>> THEN << (id :> NaN) @@ l >>
                ELSE [j \in 1..Len(hits) |-> (id :> hits[j][id]) @@ l]
    IN  Concat([i \in 1..Len(left) |-> joined(left[i])])

\* build_fact_rows with listing_id continuing after the stored rows
build_fact_rows_coordinated(df, dims) ==
    With(merge_left(df, dims.location, "location", "location", "location_id"), LAMBDA j1 :
    With(merge_left(j1, dims.property_type, "property_type", "property_type",
                    "property_type_id"), LAMBDA j2 :
    With(merge_left(j2, dims.date, "date_key", "date_id", "date_id"), LAMBDA j3 :
        [i \in 1..Len(j3) |->
            [ listing_id       |-> Len(fact_listings) + i,
              location_id      |-> j3[i].location_id,
              property_type_id |-> j3[i].property_type_id,
              date_id          |-> j3[i].date_id,
              list_date        |-> j3[i].list_date,
              listing_status   |-> j3[i].listing_status,
              price            |-> j3[i].price,
              bedrooms         |-> j3[i].bedrooms,
              bathrooms        |-> j3[i].bathrooms,
              sqft             |-> j3[i].sqft,
              lot_size         |-> j3[i].lot_size,
              price_per_sqft   |-> j3[i].price_per_sqft,
              created_at       |-> j3[i].created_at,
              updated_at       |-> j3[i].updated_at ]])))

build_fact_rows(df, dims) ==
    With(merge_left(df, dims.location, "location", "location", "location_id"),
         LAMBDA m1 :
    With(merge_left(m1, dims.property_type, "property_type", "property_type",
                    "property_type_id"), LAMBDA m2 :
    With([i \in 1..Len(m2) |-> [m2[i] EXCEPT !.date_key = yyyymmdd(m2[i].list_date)]],
         LAMBDA k3 :
    With(merge_left(k3, dims.date, "date_key", "date_id", "date_id"), LAMBDA m3 :
        [i \in 1..Len(m3) |->
            [ location_id      |-> m3[i].location_id,
              property_type_id |-> m3[i].property_type_id,
              date_id          |-> m3[i].date_id,
              list_date        |-> m3[i].list_date,
              listing_status   |-> m3[i].listing_status,
              price            |-> m3[i].price,
              bedrooms         |-> m3[i].bedrooms,
              bathrooms        |-> m3[i].bathrooms,
              sqft             |-> m3[i].sqft,
              lot_size         |-> m3[i].lot_size,
              price_per_sqft   |-> m3[i].price_per_sqft,
              created_at       |-> m3[i].created_at,
              updated_at       |-> m3[i].updated_at,
              listing_id       |-> i ]]))))

(***************************************************************************)
(* Analytics function                                                      *)
(***************************************************************************)
\* rows a query may return in the model: 0..MaxResultRows
MaxResultRows == 1

\* keys of the queries dict, in insertion order (the order of the loop)
QueryNames ==
    << "summary_stats", "monthly_trends", "location_analysis",
       "property_type_distribution", "price_correlations", "top_10_expensive",
       "bedroom_distribution", "price_brackets" >>

\* the sections of generate_html_report, in the order they are rendered
SectionOrder ==
    << "summary_stats", "monthly_trends", "location_analysis",
       "property_type_distribution", "price_correlations", "top_10_expensive",
       "price_brackets", "bedroom_distribution" >>

\* results[query_name] = df.to_dict(orient='records'): a list of n rows
RowsEntry(n) == [kind |-> "rows", n |-> n]

\* results[query_name] = {'error': str(e)}: a dict with one key
ErrorEntry == [kind |-> "error", n |-> 1]

\* Python truth value of an entry: a non-empty list or a non-empty dict
Truthy(entry) == entry.n > 0

\* The body of a section reads results[name][0] or iterates the entry and reads
\* row['...']: on the error dict the first is KeyError(0), the second iterates
\* the key 'error' and indexes a str with a str (TypeError).
SectionRaises(entry) == entry.kind = "error"

\* generate_html_report: the sections rendered, and whether a section raised
RECURSIVE RenderFrom(_, _, _)
RenderFrom(res, i, done) ==
    IF i > Len(SectionOrder) THEN [raised |-> FALSE, sections |-> done]
    ELSE LET name == SectionOrder[i] IN
         IF name \in DOMAIN res /\ Truthy(res[name])
         THEN IF SectionRaises(res[name])
              THEN [raised |-> TRUE, sections |-> done]
              ELSE RenderFrom(res, i + 1, Append(done, name))
         ELSE RenderFrom(res, i + 1, done)

generate_html_report(res) == RenderFrom(res, 1, <<>>)

timestamp == "YYYYMMDD_HHMMSS"

html_filename == <<"reports/analytics_report_", timestamp, ".html">>

json_filename == <<"reports/analytics_data_", timestamp, ".json">>

SuccessBody(res) ==
    [ status |-> "success",
      timestamp |-> timestamp,
      html_report |-> <<"gs://", html_filename>>,
      json_report |-> <<"gs://", json_filename>>,
      queries_executed |-> Cardinality(DOMAIN res),
      public_html_url |-> <<"https://storage.googleapis.com/", html_filename>> ]

ErrorBody(step) == [status |-> "error", error |-> step]

(***************************************************************************)
(* Inputs of the categorizer: up to MaxWords words of the vocabulary, each *)
(* in lower, Title or UPPER case, separated by one space.                  *)
(***************************************************************************)
MaxWords == 2

w_suite  == <<"s","u","i","t","e">>
w_cozy   == <<"c","o","z","y">>
w_office == <<"o","f","f","i","c","e">>
w_land   == <<"l","a","n","d">>

Vocabulary ==
    { w_apartment, w_flat, w_studio, w_villa, w_house, w_townhouse,
      w_penthouse, w_suite, w_cozy, w_office, w_land }

Capitalized(w) == <<UpperChar(w[1])>> \o SubSeq(w, 2, Len(w))

CasedWords == UNION { {w, Capitalized(w), upper(w)} : w \in Vocabulary }

RECURSIVE Phrases(_)
Phrases(n) ==
    IF n = 1 THEN CasedWords
    ELSE Phrases(n - 1)
         \cup { p \o <<" ">> \o w : p \in Phrases(n - 1), w \in CasedWords }

TypeNames == Phrases(MaxWords)

s_PenthouseSuite == Capitalized(w_penthouse) \o <<" ">> \o Capitalized(w_suite)

s_CozyFlat == Capitalized(w_cozy) \o <<" ">> \o Capitalized(w_flat)

(***************************************************************************)
(* process_csv: invocations, their locals, and the inputs of the model     *)
(***************************************************************************)
MaxRuns == 2

RunIds == 1..MaxRuns

RequiredColumns ==
    {"list_date", "location", "property_type", "price", "bedrooms", "bathrooms", "sqft"}

s_dotcsv == <<".","c","s","v">>

\* the file-type test of process_csv, case-sensitive
IsCsv_casesensitive(file_name) == endswith(file_name, s_dotcsv)

\* the file-type test of process_csv
IsCsv(file_name) == endswith(lower(file_name), s_dotcsv)

EmptyCsv == [columns |-> {}, rows |-> <<>>]

EmptyDims == [location |-> <<>>, property_type |-> <<>>, date |-> <<>>]

EmptyWarehouse ==
    [dim_location |-> <<>>, dim_property_type |-> <<>>, dim_date |-> <<>>,
     fact_listings |-> <<>>]

NoResult == [status |-> NoValue, code |-> 0, rows_loaded |-> 0, error |-> None]

IdleRun ==
    [ pc            |-> "idle",
      file_name     |-> <<>>,
      object        |-> EmptyCsv,       \* the uploaded object the event names
      df            |-> EmptyCsv,
      normalized_df |-> <<>>,
      dim_tables    |-> EmptyDims,
      steps         |-> <<>>,           \* the stages this invocation entered
      before        |-> EmptyWarehouse, \* the warehouse when the event arrived
      result        |-> NoResult ]

Warehouse ==
    [dim_location |-> dim_location, dim_property_type |-> dim_property_type,
     dim_date |-> dim_date, fact_listings |-> fact_listings]

\* the warehouse a successful run on the batch raw leaves, starting empty
WarehouseAfter(raw) ==
    With(normalize_dataframe(raw).rows, LAMBDA df :
    With([location |-> build_locations(df),
          property_type |-> build_property_types(df),
          date |-> build_dates(df)], LAMBDA dims :
        [dim_location |-> dims.location, dim_property_type |-> dims.property_type,
         dim_date |-> dims.date, fact_listings |-> build_fact_rows(df, dims)]))

\* rows of a batch in the model: 1..MaxRows
MaxRows == 3

s_loc_marina  == <<" "," ","d","u","b","a","i"," ","m","a","r","i","n","a",","," ","d","u","b","a","i"," ">>
s_loc_MARINA  == <<"D","U","B","A","I"," ","M","A","R","I","N","A",","," ","D","U","B","A","I">>
s_loc_sharjah == <<"S","h","a","r","j","a","h">>
s_type_villa  == <<"V","i","l","l","a">>
d_jan30       == <<"2","0","2","4","-","0","1","-","3","0"," ","0","0",":","0","0",":","0","0">>
d_jan31_18h   == <<"2","0","2","4","-","0","1","-","3","1"," ","1","8",":","0","0",":","0","0">>
d_feb01_06h   == <<"2","0","2","4","-","0","2","-","0","1"," ","0","6",":","0","0",":","0","0">>
d_unparseable == <<"n","/","a">>
s_type_APARTMENT == <<" ","A","P","A","R","T","M","E","N","T">>
f_listings_csv == <<"l","i","s","t","i","n","g","s",".","c","s","v">>
f_LISTINGS_CSV == <<"L","I","S","T","I","N","G","S",".","C","S","V">>
f_notes_txt    == <<"n","o","t","e","s",".","t","x","t">>
f_csv_bak      == <<"d","a","t","a",".","c","s","v",".","b","a","k">>
f_csv          == <<"c","s","v">>

RawRow(d, l, t, price, bedrooms, bathrooms, sqft) ==
    [ list_date |-> d, location |-> l, property_type |-> t,
      price |-> IF price = NaN THEN NaN ELSE Fx * price,
      bedrooms |-> IF bedrooms = NaN THEN NaN ELSE Fx * bedrooms,
      bathrooms |-> IF bathrooms = NaN THEN NaN ELSE Fx * bathrooms,
      sqft |-> IF sqft = NaN THEN NaN ELSE Fx * sqft ]

SampleRows ==
    { RawRow(d_jan30, s_loc_marina, w_apartment, 800000, 2, 2, 1200),
      RawRow(d_feb01_06h, s_loc_sharjah, s_PenthouseSuite, 900000, 3, 2, 1500),
      RawRow(d_jan31_18h, s_loc_MARINA, s_type_villa, 1000000, 4, 3, 2000),
      RawRow(d_jan30, s_loc_marina, w_apartment, 0, 2, 2, 1200),
      RawRow(d_unparseable, s_loc_sharjah, s_type_villa, 850000, 3, 2, 1000),
      RawRow(d_jan31_18h, NaNStr, NaNStr, NaN, 2, NaN, NaN),
      RawRow(d_jan30, s_loc_MARINA, s_type_APARTMENT, 800000, 2, 2, 1200) }

RECURSIVE BatchesUpTo(_)
BatchesUpTo(n) ==
    IF n = 0 THEN {<<>>}
    ELSE BatchesUpTo(n - 1)
         \cup { Append(b, r) : b \in { c \in BatchesUpTo(n - 1) : Len(c) = n - 1 },
                               r \in SampleRows }

Batches == BatchesUpTo(MaxRows) \ {<<>>}

OneRowBatch == <<RawRow(d_jan30, s_loc_marina, w_apartment, 800000, 2, 2, 1200)>>

CsvNames == {f_listings_csv, f_LISTINGS_CSV}

OtherNames == {f_notes_txt, f_csv_bak, f_csv}

\* the upload events of the model: complete CSV files with every batch, CSV
\* files lacking one required column, and objects that are no CSV files
Events ==
    { [name |-> n, columns |-> RequiredColumns, rows |-> b] :
          n \in CsvNames, b \in Batches }
    \cup { [name |-> n, columns |-> RequiredColumns \ {c}, rows |-> OneRowBatch] :
          n \in CsvNames, c \in RequiredColumns }
    \cup { [name |-> n, columns |-> RequiredColumns, rows |-> OneRowBatch] :
          n \in OtherNames }

\* the warehouse before the run: empty, or as an earlier upload left it
SeedBatch ==
    << RawRow(d_feb01_06h, s_loc_sharjah, s_PenthouseSuite, 900000, 3, 2, 1500),
       RawRow(d_feb01_06h, s_loc_marina, s_type_villa, 1000000, 4, 3, 2000) >>

InitialWarehouses == {EmptyWarehouse, WarehouseAfter(SeedBatch)}

EtlIdle ==
    /\ run = [r \in RunIds |-> IdleRun]
    /\ dim_location = <<>>
    /\ dim_property_type = <<>>
    /\ dim_date = <<>>
    /\ fact_listings = <<>>
    /\ downloads = <<>>
    /\ writeLog = <<>>

NoOutput == [raised |-> FALSE, error |-> NoValue, rows |-> <<>>]

BatchIdle ==
    /\ raw_df = <<>>
    /\ norm_out = NoOutput
    /\ norm_log = <<>>
    /\ loc_out = NoOutput
    /\ clock = 0

CatIdle ==
    /\ type_name = <<>>
    /\ category = NoValue
    /\ variant = NoValue

ReportIdle ==
    /\ rpc = "idle"
    /\ qi = 1
    /\ results = <<>>
    /\ queryLog = <<>>
    /\ html_report = <<>>
    /\ response = [code |-> 0, body |-> [status |-> NoValue]]
    /\ raisedAt = NoValue
    /\ reportStore = {}

CatInit ==
    /\ type_name \in TypeNames
    /\ category = NoValue
    /\ variant = NoValue
    /\ ReportIdle
    /\ EtlIdle
    /\ BatchIdle

CategorizeDeployed ==
    /\ category = NoValue
    /\ category' = categorize_property(type_name)
    /\ variant' = "deployed"
    /\ UNCHANGED <<type_name, reportVars, etlVars, batchVars>>

CategorizeRoot ==
    /\ category = NoValue
    /\ category' = categorize_property_root(type_name)
    /\ variant' = "root"
    /\ UNCHANGED <<type_name, reportVars, etlVars, batchVars>>

CatNext == CategorizeDeployed \/ CategorizeRoot

SpecCat == CatInit /\ [][CatNext]_vars

(***************************************************************************)
(* generate_report, one request at a time                                  *)
(***************************************************************************)
\* the warehouse the queries read is empty or holds an earlier upload
ReportInit ==
    /\ CatIdle
    /\ ReportIdle
    /\ BatchIdle
    /\ run = [r \in RunIds |-> IdleRun]
    /\ \E w \in InitialWarehouses :
          /\ dim_location = w.dim_location
          /\ dim_property_type = w.dim_property_type
          /\ dim_date = w.dim_date
          /\ fact_listings = w.fact_listings
    /\ downloads = <<>>
    /\ writeLog = <<>>

\* the HTTP request arrives; locals of the previous request are gone
StartReport ==
    /\ rpc \in {"idle", "done"}
    /\ rpc' = "queries"
    /\ qi' = 1
    /\ results' = <<>>
    /\ queryLog' = <<>>
    /\ html_report' = <<>>
    /\ response' = [code |-> 0, body |-> [status |-> NoValue]]
    /\ raisedAt' = NoValue
    /\ UNCHANGED <<reportStore, catVars, etlVars, batchVars>>

\* a query that is a DELETE statement: the stored fact rows are gone
QuerySucceeds_delete ==
    /\ rpc = "queries"
    /\ qi <= Len(QueryNames)
    /\ \E n \in 0..MaxResultRows :
          /\ results' = (QueryNames[qi] :> RowsEntry(n)) @@ results
          /\ queryLog' = Append(queryLog, [name |-> QueryNames[qi], raised |-> FALSE, n |-> n])
    /\ qi' = qi + 1
    /\ fact_listings' = <<>>
    /\ UNCHANGED <<rpc, html_report, response, raisedAt, reportStore, catVars, batchVars,
                   run, dim_location, dim_property_type, dim_date, downloads, writeLog>>

\* one iteration of the loop, try leg: the query returns n rows
QuerySucceeds ==
    /\ rpc = "queries"
    /\ qi <= Len(QueryNames)
    /\ \E n \in 0..MaxResultRows :
          /\ results' = (QueryNames[qi] :> RowsEntry(n)) @@ results
          /\ queryLog' = Append(queryLog, [name |-> QueryNames[qi], raised |-> FALSE, n |-> n])
    /\ qi' = qi + 1
    /\ UNCHANGED <<rpc, html_report, response, raisedAt, reportStore, catVars, etlVars, batchVars>>

\* the loop without its try/except: the first failing query ends the loop
QueryFails_abort ==
    /\ rpc = "queries"
    /\ qi <= Len(QueryNames)
    /\ results' = (QueryNames[qi] :> ErrorEntry) @@ results
    /\ queryLog' = Append(queryLog, [name |-> QueryNames[qi], raised |-> TRUE, n |-> 0])
    /\ qi' = Len(QueryNames) + 1
    /\ UNCHANGED <<rpc, html_report, response, raisedAt, reportStore, catVars, etlVars, batchVars>>

\* one iteration of the loop, except leg: the query raised
QueryFails ==
    /\ rpc = "queries"
    /\ qi <= Len(QueryNames)
    /\ results' = (QueryNames[qi] :> ErrorEntry) @@ results
    /\ queryLog' = Append(queryLog, [name |-> QueryNames[qi], raised |-> TRUE, n |-> 0])
    /\ qi' = qi + 1
    /\ UNCHANGED <<rpc, html_report, response, raisedAt, reportStore, catVars, etlVars, batchVars>>

\* generate_report without its except clause: the exception of
\* generate_html_report leaves the function and no response is returned
RenderHtml_propagates ==
    /\ rpc = "queries"
    /\ qi > Len(QueryNames)
    /\ LET r == generate_html_report(results) IN
       /\ html_report' = r.sections
       /\ IF r.raised
          THEN /\ rpc' = "done"
               /\ raisedAt' = "generate_html_report"
               /\ UNCHANGED response
          ELSE /\ rpc' = "upload_html"
               /\ UNCHANGED <<raisedAt, response>>
    /\ UNCHANGED <<qi, results, queryLog, reportStore, catVars, etlVars, batchVars>>

\* execute_analytical_queries returned; generate_html_report runs
RenderHtml ==
    /\ rpc = "queries"
    /\ qi > Len(QueryNames)
    /\ LET r == generate_html_report(results) IN
       /\ html_report' = r.sections
       /\ IF r.raised
          THEN /\ rpc' = "done"
               /\ raisedAt' = "generate_html_report"
               /\ response' = [code |-> 500, body |-> ErrorBody("generate_html_report")]
          ELSE /\ rpc' = "upload_html"
               /\ UNCHANGED <<raisedAt, response>>
    /\ UNCHANGED <<qi, results, queryLog, reportStore, catVars, etlVars, batchVars>>

UploadHtml ==
    /\ rpc = "upload_html"
    /\ reportStore' = reportStore \cup {html_filename}
    /\ rpc' = "upload_json"
    /\ UNCHANGED <<qi, results, queryLog, html_report, response, raisedAt, catVars, etlVars, batchVars>>

UploadHtmlFails ==
    /\ rpc = "upload_html"
    /\ rpc' = "done"
    /\ raisedAt' = "upload_html"
    /\ response' = [code |-> 500, body |-> ErrorBody("upload_html")]
    /\ UNCHANGED <<qi, results, queryLog, html_report, reportStore, catVars, etlVars, batchVars>>

UploadJson ==
    /\ rpc = "upload_json"
    /\ reportStore' = reportStore \cup {json_filename}
    /\ rpc' = "done"
    /\ response' = [code |-> 200, body |-> SuccessBody(results)]
    /\ UNCHANGED <<qi, results, queryLog, html_report, raisedAt, catVars, etlVars, batchVars>>

UploadJsonFails ==
    /\ rpc = "upload_json"
    /\ rpc' = "done"
    /\ raisedAt' = "upload_json"
    /\ response' = [code |-> 500, body |-> ErrorBody("upload_json")]
    /\ UNCHANGED <<qi, results, queryLog, html_report, reportStore, catVars, etlVars, batchVars>>

ReportNext ==
    \/ StartReport
    \/ QuerySucceeds
    \/ QueryFails
    \/ RenderHtml
    \/ UploadHtml
    \/ UploadHtmlFails
    \/ UploadJson
    \/ UploadJsonFails

SpecReport == ReportInit /\ [][ReportNext]_vars

(***************************************************************************)
(* process_csv, one invocation r                                           *)
(***************************************************************************)
EtlInit ==
    /\ CatIdle
    /\ ReportIdle
    /\ BatchIdle
    /\ run = [r \in RunIds |-> IdleRun]
    /\ \E w \in InitialWarehouses :
          /\ dim_location = w.dim_location
          /\ dim_property_type = w.dim_property_type
          /\ dim_date = w.dim_date
          /\ fact_listings = w.fact_listings
    /\ downloads = <<>>
    /\ writeLog = <<>>

Raise(r, error) ==
    run' = [run EXCEPT ![r].pc = "raised",
                       ![r].result = [NoResult EXCEPT !.error = error]]

\* the storage event of an upload reaches the function
Trigger(r, ev) ==
    /\ run[r].pc = "idle"
    /\ run' = [run EXCEPT ![r] =
                  [IdleRun EXCEPT !.pc = "start",
                                  !.file_name = ev.name,
                                  !.object = [columns |-> ev.columns, rows |-> ev.rows],
                                  !.before = Warehouse]]
    /\ UNCHANGED <<dim_location, dim_property_type, dim_date, fact_listings,
                   downloads, writeLog, catVars, reportVars, batchVars>>

\* the only invocation of the single-run specification
TriggerFirst == \E ev \in Events : Trigger(1, ev)

\* "Validate file type": return ('Not a CSV file', 200)
SkipNonCsv(r) ==
    /\ run[r].pc = "start"
    /\ ~IsCsv(run[r].file_name)
    /\ run' = [run EXCEPT ![r].pc = "done",
                          ![r].result = [NoResult EXCEPT !.status = "Not a CSV file",
                                                         !.code = 200]]
    /\ UNCHANGED <<dim_location, dim_property_type, dim_date, fact_listings,
                   downloads, writeLog, catVars, reportVars, batchVars>>

\* STEP 2: blob.download_as_text() and pd.read_csv
Download(r) ==
    /\ run[r].pc = "start"
    /\ IsCsv(run[r].file_name)
    /\ downloads' = Append(downloads, run[r].file_name)
    /\ run' = [run EXCEPT ![r].pc = "validate",
                          ![r].df = run[r].object,
                          ![r].steps = Append(@, "download")]
    /\ UNCHANGED <<dim_location, dim_property_type, dim_date, fact_listings,
                   writeLog, catVars, reportVars, batchVars>>

\* the download raises (the object is gone, the service fails)
DownloadFails(r) ==
    /\ run[r].pc = "start"
    /\ IsCsv(run[r].file_name)
    /\ Raise(r, "download failed")
    /\ UNCHANGED <<dim_location, dim_property_type, dim_date, fact_listings,
                   downloads, writeLog, catVars, reportVars, batchVars>>

\* "Validate required columns": raise ValueError
SchemaInvalid(r) ==
    /\ run[r].pc = "validate"
    /\ RequiredColumns \ run[r].df.columns # {}
    /\ Raise(r, "ValueError: Missing required columns")
    /\ UNCHANGED <<dim_location, dim_property_type, dim_date, fact_listings,
                   downloads, writeLog, catVars, reportVars, batchVars>>

\* STEP 3 entered without the check of the required columns
Transform_unvalidated(r) ==
    /\ run[r].pc = "validate"
    /\ LET n == normalize_dataframe(run[r].df.rows) IN
       IF n.raised
       THEN run' = [run EXCEPT ![r].pc = "raised",
                               ![r].steps = Append(@, "normalize"),
                               ![r].result = [NoResult EXCEPT !.error = n.error]]
       ELSE run' = [run EXCEPT ![r].pc = "dim_location",
                               ![r].steps = Append(@, "normalize"),
                               ![r].normalized_df = n.rows]
    /\ UNCHANGED <<dim_location, dim_property_type, dim_date, fact_listings,
                   downloads, writeLog, catVars, reportVars, batchVars>>

\* STEP 3: normalize_dataframe(df)
Transform(r) ==
    /\ run[r].pc = "validate"
    /\ RequiredColumns \ run[r].df.columns = {}
    /\ LET n == normalize_dataframe(run[r].df.rows) IN
       IF n.raised
       THEN run' = [run EXCEPT ![r].pc = "raised",
                               ![r].steps = Append(@, "normalize"),
                               ![r].result = [NoResult EXCEPT !.error = n.error]]
       ELSE run' = [run EXCEPT ![r].pc = "dim_location",
                               ![r].steps = Append(@, "normalize"),
                               ![r].normalized_df = n.rows]
    /\ UNCHANGED <<dim_location, dim_property_type, dim_date, fact_listings,
                   downloads, writeLog, catVars, reportVars, batchVars>>

\* DIMENSION 1 loaded with WRITE_APPEND: the stored rows are kept
WriteDimLocation_append(r) ==
    /\ run[r].pc = "dim_location"
    /\ LET locations == build_locations(run[r].normalized_df) IN
       /\ dim_location' = dim_location \o locations
       /\ run' = [run EXCEPT ![r].pc = "dim_property_type",
                             ![r].steps = Append(@, "dim_location"),
                             ![r].dim_tables.location = locations]
    /\ writeLog' = Append(writeLog, [run |-> r, table |-> "dim_location"])
    /\ UNCHANGED <<dim_property_type, dim_date, fact_listings, downloads,
                   catVars, reportVars, batchVars>>

\* create_dimension_tables, DIMENSION 1: build, WRITE_TRUNCATE, keep
WriteDimLocation(r) ==
    /\ run[r].pc = "dim_location"
    /\ LET locations == build_locations(run[r].normalized_df) IN
       /\ dim_location' = locations
       /\ run' = [run EXCEPT ![r].pc = "dim_property_type",
                             ![r].steps = Append(@, "dim_location"),
                             ![r].dim_tables.location = locations]
    /\ writeLog' = Append(writeLog, [run |-> r, table |-> "dim_location"])
    /\ UNCHANGED <<dim_property_type, dim_date, fact_listings, downloads,
                   catVars, reportVars, batchVars>>

\* DIMENSION 2 loaded with WRITE_EMPTY semantics: a populated table is kept
WriteDimPropertyType_keepfirst(r) ==
    /\ run[r].pc = "dim_property_type"
    /\ LET property_types == build_property_types(run[r].normalized_df) IN
       /\ dim_property_type' = IF dim_property_type = <<>> THEN property_types
                                ELSE dim_property_type
       /\ run' = [run EXCEPT ![r].pc = "dim_date",
                             ![r].steps = Append(@, "dim_property_type"),
                             ![r].dim_tables.property_type = property_types]
    /\ writeLog' = Append(writeLog, [run |-> r, table |-> "dim_property_type"])
    /\ UNCHANGED <<dim_location, dim_date, fact_listings, downloads,
                   catVars, reportVars, batchVars>>

\* create_dimension_tables, DIMENSION 2
WriteDimPropertyType(r) ==
    /\ run[r].pc = "dim_property_type"
    /\ LET property_types == build_property_types(run[r].normalized_df) IN
       /\ dim_property_type' = property_types
       /\ run' = [run EXCEPT ![r].pc = "dim_date",
                             ![r].steps = Append(@, "dim_property_type"),
                             ![r].dim_tables.property_type = property_types]
    /\ writeLog' = Append(writeLog, [run |-> r, table |-> "dim_property_type"])
    /\ UNCHANGED <<dim_location, dim_date, fact_listings, downloads,
                   catVars, reportVars, batchVars>>

\* DIMENSION 3 loaded with WRITE_APPEND: the stored rows are kept
WriteDimDate_append(r) ==
    /\ run[r].pc = "dim_date"
    /\ run[r].normalized_df # <<>>
    /\ LET dates == build_dates(run[r].normalized_df) IN
       /\ dim_date' = dim_date \o dates
       /\ run' = [run EXCEPT ![r].pc = "fact",
                             ![r].steps = Append(@, "dim_date"),
                             ![r].dim_tables.date = dates]
    /\ writeLog' = Append(writeLog, [run |-> r, table |-> "dim_date"])
    /\ UNCHANGED <<dim_location, dim_property_type, fact_listings, downloads,
                   catVars, reportVars, batchVars>>

\* create_dimension_tables, DIMENSION 3
WriteDimDate(r) ==
    /\ run[r].pc = "dim_date"
    /\ run[r].normalized_df # <<>>
    /\ LET dates == build_dates(run[r].normalized_df) IN
       /\ dim_date' = dates
       /\ run' = [run EXCEPT ![r].pc = "fact",
                             ![r].steps = Append(@, "dim_date"),
                             ![r].dim_tables.date = dates]
    /\ writeLog' = Append(writeLog, [run |-> r, table |-> "dim_date"])
    /\ UNCHANGED <<dim_location, dim_property_type, fact_listings, downloads,
                   catVars, reportVars, batchVars>>

\* load_fact_table: join, WRITE_APPEND, return rows_loaded; then ('Success', 200)
LoadFact(r) ==
    /\ run[r].pc = "fact"
    /\ LET fact_df == build_fact_rows(run[r].normalized_df, run[r].dim_tables) IN
       /\ fact_listings' = fact_listings \o fact_df
       /\ run' = [run EXCEPT ![r].pc = "done",
                             ![r].steps = Append(@, "fact_listings"),
                             ![r].result = [NoResult EXCEPT !.status = "Success",
                                                            !.code = 200,
                                                            !.rows_loaded = Len(fact_df)]]
    /\ writeLog' = Append(writeLog, [run |-> r, table |-> "fact_listings"])
    /\ UNCHANGED <<dim_location, dim_property_type, dim_date, downloads,
                   catVars, reportVars, batchVars>>

\* a failing load job undone: the tables are put back as the run found them
WriteFails_rollback(r) ==
    /\ run[r].pc \in {"dim_location", "dim_property_type", "dim_date", "fact"}
    /\ Raise(r, "load job failed")
    /\ dim_location' = run[r].before.dim_location
    /\ dim_property_type' = run[r].before.dim_property_type
    /\ dim_date' = run[r].before.dim_date
    /\ UNCHANGED <<fact_listings, downloads, writeLog, catVars, reportVars, batchVars>>

\* a load job raises: job.result() of any of the four writes
WriteFails(r) ==
    /\ run[r].pc \in {"dim_location", "dim_property_type", "dim_date", "fact"}
    /\ Raise(r, "load job failed")
    /\ UNCHANGED <<dim_location, dim_property_type, dim_date, fact_listings,
                   downloads, writeLog, catVars, reportVars, batchVars>>

Step(r) ==
    \/ SkipNonCsv(r)
    \/ Download(r)
    \/ DownloadFails(r)
    \/ SchemaInvalid(r)
    \/ Transform(r)
    \/ WriteDimLocation(r)
    \/ WriteDimPropertyType(r)
    \/ WriteDimDate(r)
    \/ LoadFact(r)
    \/ WriteFails(r)

Next == TriggerFirst \/ \E r \in RunIds : Step(r)

Spec == EtlInit /\ [][Next]_vars

(***************************************************************************)
(* Several invocations of process_csv on one warehouse                     *)
(***************************************************************************)
BatchA ==
    << RawRow(d_jan30, s_loc_marina, w_apartment, 800000, 2, 2, 1200),
       RawRow(d_feb01_06h, s_loc_sharjah, s_PenthouseSuite, 900000, 3, 2, 1500) >>

\* the locations and property types of BatchA, first appearing in the other order
BatchB ==
    << RawRow(d_jan30, s_loc_sharjah, s_PenthouseSuite, 900000, 3, 2, 1500),
       RawRow(d_jan30, s_loc_MARINA, w_apartment, 1000000, 4, 3, 2000),
       RawRow(d_jan30, s_loc_sharjah, s_type_villa, 850000, 3, 2, 1000) >>

\* the uploads of the runs that share the warehouse
SharedEvents ==
    { [name |-> f_listings_csv, columns |-> RequiredColumns, rows |-> b] :
          b \in {OneRowBatch, BatchA, BatchB} }
    \cup { [name |-> f_listings_csv, columns |-> RequiredColumns \ {"price"},
            rows |-> OneRowBatch],
           [name |-> f_notes_txt, columns |-> RequiredColumns, rows |-> OneRowBatch] }

Finished(r) == run[r].pc \in {"done", "raised"}

\* the next upload arrives after the previous invocation returned or raised
TriggerAfter(r) ==
    /\ IF r = 1 THEN TRUE ELSE Finished(r - 1)
    /\ \E ev \in SharedEvents : Trigger(r, ev)

SeqInit == CatIdle /\ ReportIdle /\ BatchIdle /\ EtlIdle

SeqNext == \E r \in RunIds : TriggerAfter(r) \/ Step(r)

SpecSeq == SeqInit /\ [][SeqNext]_vars

\* the two invocations that overlap
ConcurrentRuns == {1, 2}

\* an upload arrives while the other invocation may still be running
TriggerAnytime(r) == \E ev \in SharedEvents : Trigger(r, ev)

ConcNext == \E r \in ConcurrentRuns : TriggerAnytime(r) \/ Step(r)

SpecConc == SeqInit /\ [][ConcNext]_vars

(***************************************************************************)
(* normalize_dataframe and the location dimension applied to one batch,    *)
(* in both variants of the repository                                      *)
(***************************************************************************)
\* rows of a batch handed to normalize_dataframe: 1..MaxBatchRows
MaxBatchRows == 4

d_jan15 == <<"2","0","2","4","-","0","1","-","1","5">>
s_blank == <<" "," "," ">>

\* the row of Scenario 1; a dearer listing without a comma in its
\* location; an unparseable date; a row with a blank location and missing
\* property_type, price and bathrooms; a price of 0; a row without bedrooms
BatchRows ==
    { RawRow(d_jan15, s_loc_marina, w_apartment, 800000, 2, 2, 1200),
      RawRow(d_jan30, s_loc_sharjah, s_type_villa, 1000000, 3, 3, 2000),
      RawRow(d_unparseable, s_loc_sharjah, s_type_villa, 850000, 3, 2, 1000),
      RawRow(d_jan31_18h, s_blank, NaNStr, NaN, 2, NaN, 1500),
      RawRow(d_jan30, s_loc_marina, w_apartment, 0, 2, 2, 1200),
      RawRow(d_jan30, s_loc_marina, w_apartment, 800000, NaN, 2, 1200) }

RECURSIVE RawBatchesUpTo(_)
RawBatchesUpTo(n) ==
    IF n = 0 THEN {<<>>}
    ELSE RawBatchesUpTo(n - 1)
         \cup { Append(b, r) : b \in { c \in RawBatchesUpTo(n - 1) : Len(c) = n - 1 },
                               r \in BatchRows }

RawBatches == RawBatchesUpTo(MaxBatchRows) \ {<<>>}

BatchInit ==
    /\ CatIdle
    /\ ReportIdle
    /\ EtlIdle
    /\ raw_df \in RawBatches
    /\ norm_out = NoOutput
    /\ norm_log = <<>>
    /\ loc_out = NoOutput
    /\ clock = 0

\* normalize_dataframe(df) of the deployed function
NormalizeDeployed ==
    /\ variant = NoValue
    /\ variant' = "deployed"
    /\ norm_out' = normalize_dataframe(raw_df)
    /\ norm_log' = normalize_prints(raw_df)
    /\ UNCHANGED <<raw_df, loc_out, clock, type_name, category, reportVars, etlVars>>

\* normalize_dataframe(df) of src/transform.py, which prints nothing
NormalizeRoot ==
    /\ variant = NoValue
    /\ variant' = "root"
    /\ norm_out' = normalize_dataframe_root(raw_df)
    /\ UNCHANGED <<raw_df, norm_log, loc_out, clock, type_name, category, reportVars, etlVars>>

\* DIMENSION 1 of the deployed create_dimension_tables on the normalized batch
BuildLocationsDeployed ==
    /\ variant = "deployed"
    /\ ~norm_out.raised
    /\ loc_out = NoOutput
    /\ loc_out' = [raised |-> FALSE, error |-> None, rows |-> build_locations(norm_out.rows)]
    /\ UNCHANGED <<raw_df, norm_out, norm_log, clock, catVars, reportVars, etlVars>>

\* the location dimension of src/load.py on the normalized batch
BuildLocationsRoot ==
    /\ variant = "root"
    /\ ~norm_out.raised
    /\ loc_out = NoOutput
    /\ loc_out' = build_locations_root(norm_out.rows)
    /\ UNCHANGED <<raw_df, norm_out, norm_log, clock, catVars, reportVars, etlVars>>

BatchNext ==
    \/ NormalizeDeployed
    \/ NormalizeRoot
    \/ BuildLocationsDeployed
    \/ BuildLocationsRoot

SpecBatch == BatchInit /\ [][BatchNext]_vars

(***************************************************************************)
(* create_dimension_tables called again on the same normalized batch       *)
(***************************************************************************)
\* a load job whose write disposition is ignored: the stored rows are kept
load_table_appending(stored, table, write_disposition) == stored \o table

\* client.load_table_from_dataframe(table, table_id, job_config) followed by
\* job.result(): the stored table afterwards
load_table_from_dataframe(stored, table, write_disposition) ==
    IF write_disposition = "WRITE_TRUNCATE" THEN table ELSE stored \o table

\* table['created_at'] = datetime.utcnow(), read at the time now
Stamp(table, now) == [i \in 1..Len(table) |-> [table[i] EXCEPT !.created_at = now]]

\* the dim_tables dict create_dimension_tables returns when called at now
create_dimension_tables(df, now) ==
    [ location      |-> Stamp(build_locations(df), now),
      property_type |-> Stamp(build_property_types(df), now),
      date          |-> build_dates(df) ]

DimensionWrites(r) ==
    << [run |-> r, table |-> "dim_location"],
       [run |-> r, table |-> "dim_property_type"],
       [run |-> r, table |-> "dim_date"] >>

RebuildInit ==
    /\ CatIdle
    /\ ReportIdle
    /\ raw_df \in Batches
    /\ norm_out = NoOutput
    /\ norm_log = <<>>
    /\ loc_out = NoOutput
    /\ clock = 0
    /\ run = [r \in RunIds |-> IdleRun]
    /\ \E w \in InitialWarehouses :
          /\ dim_location = w.dim_location
          /\ dim_property_type = w.dim_property_type
          /\ dim_date = w.dim_date
          /\ fact_listings = w.fact_listings
    /\ downloads = <<>>
    /\ writeLog = <<>>

\* call r of create_dimension_tables may start: the batch is normalized and
\* the previous call returned or raised
MayRebuild(r) ==
    /\ variant = "deployed"
    /\ ~norm_out.raised
    /\ run[r].pc = "idle"
    /\ IF r = 1 THEN TRUE ELSE Finished(r - 1)

\* create_dimension_tables(normalized_df, ...) runs to its return; the load
\* jobs take time, so the next call reads a later clock
Rebuild(r) ==
    /\ MayRebuild(r)
    /\ LET dim_tables == create_dimension_tables(norm_out.rows, clock) IN
       /\ dim_location' = load_table_from_dataframe(dim_location, dim_tables.location,
                                                    "WRITE_TRUNCATE")
       /\ dim_property_type' = load_table_from_dataframe(dim_property_type,
                                                         dim_tables.property_type,
                                                         "WRITE_TRUNCATE")
       /\ dim_date' = load_table_from_dataframe(dim_date, dim_tables.date, "WRITE_TRUNCATE")
       /\ run' = [run EXCEPT ![r] =
                     [IdleRun EXCEPT !.pc = "done",
                                     !.normalized_df = norm_out.rows,
                                     !.dim_tables = dim_tables,
                                     !.steps = <<"dim_location", "dim_property_type", "dim_date">>,
                                     !.before = Warehouse]]
    /\ writeLog' = writeLog \o DimensionWrites(r)
    /\ clock' = clock + 1
    /\ UNCHANGED <<fact_listings, downloads, raw_df, norm_out, norm_log, loc_out,
                   catVars, reportVars>>

\* one of the three load jobs raises after k of them completed
RebuildFails(r) ==
    /\ MayRebuild(r)
    /\ \E k \in 0..2 :
          LET dim_tables == create_dimension_tables(norm_out.rows, clock) IN
          /\ dim_location' = IF k >= 1
                             THEN load_table_from_dataframe(dim_location, dim_tables.location,
                                                            "WRITE_TRUNCATE")
                             ELSE dim_location
          /\ dim_property_type' = IF k >= 2
                                  THEN load_table_from_dataframe(dim_property_type,
                                                                 dim_tables.property_type,
                                                                 "WRITE_TRUNCATE")
                                  ELSE dim_property_type
          /\ run' = [run EXCEPT ![r] =
                        [IdleRun EXCEPT !.pc = "raised",
                                        !.normalized_df = norm_out.rows,
                                        !.steps = SubSeq(<<"dim_location", "dim_property_type",
                                                           "dim_date">>, 1, k + 1),
                                        !.before = Warehouse,
                                        !.result = [NoResult EXCEPT !.error = "load job failed"]]]
          /\ writeLog' = writeLog \o SubSeq(DimensionWrites(r), 1, k)
    /\ clock' = clock + 1
    /\ UNCHANGED <<dim_date, fact_listings, downloads, raw_df, norm_out, norm_log, loc_out,
                   catVars, reportVars>>

RebuildNext ==
    \/ NormalizeDeployed
    \/ \E r \in RunIds : Rebuild(r) \/ RebuildFails(r)

SpecRebuild == RebuildInit /\ [][RebuildNext]_vars

(***************************************************************************)
(* Claims                                                                  *)
(***************************************************************************)
ReportDone == rpc = "done"

FailedQueries == {q \in DOMAIN results : results[q].kind = "error"}

\* C1: a reporting run in which exactly one of the eight queries throws and
\* the other seven succeed returns HTTP 200 with status 'success', and the
\* rendered report holds the section of every successful query that returned
\* rows (the failed one being omitted or a placeholder).
C1_OneFailureStill200 ==
    ( /\ ReportDone
      /\ Len(queryLog) = Len(QueryNames)
      /\ Cardinality(FailedQueries) = 1
      /\ raisedAt \notin {"upload_html", "upload_json"} )
    => /\ response.code = 200
       /\ response.body.status = "success"
       /\ \A q \in DOMAIN results :
             (results[q].kind = "rows" /\ results[q].n > 0)
                => \E i \in 1..Len(html_report) : html_report[i] = q

\* C2: execute_analytical_queries calls all eight queries once each, in
\* order, whatever subset fails: results has the names of the queries called
\* so far as keys (all eight once the loop is over), a query that raised maps
\* to the error entry and one that returned maps to its rows.
C2_AllQueriesAttempted ==
    /\ Len(queryLog) = qi - 1
    /\ \A j \in 1..Len(queryLog) :
          /\ queryLog[j].name = QueryNames[j]
          /\ results[QueryNames[j]] =
                IF queryLog[j].raised THEN ErrorEntry ELSE RowsEntry(queryLog[j].n)
    /\ DOMAIN results = {QueryNames[j] : j \in 1..(qi - 1)}
    /\ rpc \in {"upload_html", "upload_json", "done"}
          => DOMAIN results = {QueryNames[j] : j \in 1..Len(QueryNames)}

\* C2 witness: the loop is over, an early query raised and a later one returned
C2_Witness ==
    /\ rpc = "done"
    /\ Len(queryLog) = Len(QueryNames)
    /\ queryLog[1].raised
    /\ \E k \in 2..Len(queryLog) : ~queryLog[k].raised /\ queryLog[k].n > 0
    /\ \E k \in 2..Len(queryLog) : queryLog[k].raised

\* C3: the deployed categorizer maps "Penthouse Suite" to Residential-Luxury
\* and "Cozy Flat" to Residential-Apartment.
C3_Scenario3 ==
    variant = "deployed" =>
        /\ type_name = s_PenthouseSuite => category = "Residential-Luxury"
        /\ type_name = s_CozyFlat => category = "Residential-Apartment"

\* the rules of the categorizer in the documented priority order
RuleMatches(i, t) ==
    CASE i = 1 -> contains(lower(t), w_apartment) \/ contains(lower(t), w_flat)
                    \/ contains(lower(t), w_studio)
      [] i = 2 -> contains(lower(t), w_villa) \/ contains(lower(t), w_house)
      [] i = 3 -> contains(lower(t), w_townhouse)
      [] i = 4 -> contains(lower(t), w_penthouse)

RuleCategory ==
    << "Residential-Apartment", "Residential-House", "Residential-Townhouse",
       "Residential-Luxury" >>

\* C4: a type name containing 'townhouse' (any case) and none of
\* apartment/flat/studio/villa is categorized Residential-Townhouse; and the
\* category is that of the first matching rule, else Other.
C4_TownhouseRule ==
    variant = "deployed" =>
        /\ ( /\ contains(lower(type_name), w_townhouse)
             /\ ~contains(lower(type_name), w_apartment)
             /\ ~contains(lower(type_name), w_flat)
             /\ ~contains(lower(type_name), w_studio)
             /\ ~contains(lower(type_name), w_villa) )
           => category = "Residential-Townhouse"
        /\ IF \E i \in 1..4 : RuleMatches(i, type_name)
           THEN LET first == CHOOSE i \in 1..4 :
                                /\ RuleMatches(i, type_name)
                                /\ \A j \in 1..(i - 1) : ~RuleMatches(j, type_name)
                IN  category = RuleCategory[first]
           ELSE category = "Other"

(***************************************************************************)
(* Claims about process_csv                                                *)
(***************************************************************************)
Contains(seq, x) == \E i \in 1..Len(seq) : seq[i] = x

\* run r has been past the stage named step
Entered(r, step) == Contains(run[r].steps, step)

\* no load job of run r completed
NoWrites(r) == \A i \in 1..Len(writeLog) : writeLog[i].run # r

\* the four tables are as they were when the event of run r arrived
WarehouseUntouched(r) == NoWrites(r) /\ Warehouse = run[r].before

PastValidation(r) == run[r].pc \notin {"idle", "start", "validate"}

\* C5: when normalization eliminates every row of the batch, the run fails
\* with an error and writes nothing: the four tables are as before the run.
C5_EmptyBatchRejected ==
    \A r \in RunIds :
        ( /\ PastValidation(r)
          /\ Entered(r, "download")
          /\ RequiredColumns \subseteq run[r].df.columns
          /\ Len(normalize_steps(run[r].df.rows).rows) = 0 )
        => /\ run[r].pc = "raised"
           /\ run[r].result.error # None
           /\ run[r].result.code = 0
           /\ WarehouseUntouched(r)

\* C5 witness: a batch of two rows, every price <= 0, was rejected while the
\* warehouse held the tables of an earlier upload
C5_Witness ==
    \E r \in RunIds :
        /\ run[r].pc = "raised"
        /\ Entered(r, "normalize")
        /\ Len(run[r].df.rows) = 2
        /\ \A i \in 1..Len(run[r].df.rows) : run[r].df.rows[i].price = 0
        /\ run[r].result.error = "ValueError: All rows were filtered out"
        /\ run[r].before.fact_listings # <<>>
        /\ fact_listings = run[r].before.fact_listings

\* C6: a CSV lacking a required column makes the run raise before any
\* normalization step and before any warehouse write.
C6_SchemaRejectedFirst ==
    \A r \in RunIds :
        ( /\ PastValidation(r)
          /\ Entered(r, "download")
          /\ RequiredColumns \ run[r].df.columns # {} )
        => /\ run[r].pc = "raised"
           /\ run[r].result.error = "ValueError: Missing required columns"
           /\ ~Entered(r, "normalize")
           /\ run[r].normalized_df = <<>>
           /\ WarehouseUntouched(r)

\* C6 witness: an upload without the price column was rejected
C6_Witness ==
    \E r \in RunIds :
        /\ run[r].pc = "raised"
        /\ run[r].df.columns = RequiredColumns \ {"price"}
        /\ run[r].df.rows # <<>>
        /\ run[r].before.dim_location # <<>>

Skipped(r) ==
    /\ run[r].pc = "done"
    /\ run[r].result.status = "Not a CSV file"
    /\ run[r].result.code = 200
    /\ ~Contains(downloads, run[r].file_name)
    /\ run[r].steps = <<>>
    /\ WarehouseUntouched(r)

\* the run went into the try block of process_csv
Processed(r) ==
    /\ run[r].result.status # "Not a CSV file"
    /\ run[r].pc = "raised" \/ Entered(r, "download")

FirstIndex(df, col, v) ==
    CHOOSE i \in 1..Len(df) : df[i][col] = v /\ \A j \in 1..(i - 1) : df[j][col] # v

\* dim has one row per distinct value of df[col], ids 1..K in order of first
\* appearance
DenseFirstAppearance(dim, df, col, id) ==
    /\ {dim[i][col] : i \in 1..Len(dim)} = {df[j][col] : j \in 1..Len(df)}
    /\ \A i, k \in 1..Len(dim) : dim[i][col] = dim[k][col] => i = k
    /\ \A i \in 1..Len(dim) : dim[i][id] = i
    /\ \A i, k \in 1..Len(dim) :
          i < k => FirstIndex(df, col, dim[i][col]) < FirstIndex(df, col, dim[k][col])

\* C8: the location and property_type tables built from a normalized batch
\* hold exactly one row per distinct normalized string, with ids 1..K in order
\* of first appearance in the batch.
C8_DimensionKeys ==
    \A r \in RunIds :
        /\ Entered(r, "dim_location") =>
              DenseFirstAppearance(run[r].dim_tables.location, run[r].normalized_df,
                                   "location", "location_id")
        /\ Entered(r, "dim_property_type") =>
              DenseFirstAppearance(run[r].dim_tables.property_type,
                                   run[r].normalized_df,
                                   "property_type", "property_type_id")

\* C8 witness: three rows, the first and third with the same location, built
\* two location rows and three property types
C8_Witness ==
    \E r \in RunIds :
        /\ run[r].pc = "done"
        /\ Len(run[r].normalized_df) = 3
        /\ run[r].normalized_df[1].location = run[r].normalized_df[3].location
        /\ run[r].normalized_df[1].location # run[r].normalized_df[2].location
        /\ Len(run[r].dim_tables.location) = 2
        /\ Len(run[r].dim_tables.property_type) = 3
        /\ dim_location = run[r].dim_tables.location

Midnight(d) == [days |-> d, secs |-> 0]

\* C9: the date table built from a normalized batch has exactly one row with
\* date_id = YYYYMMDD(d) for every calendar day d from the day of
\* min(list_date) to the day of max(list_date), and no row outside that range.
C9_DateSpineComplete ==
    \A r \in RunIds :
        Entered(r, "dim_date") =>
            LET dates == run[r].dim_tables.date
                lo    == min_date(run[r].normalized_df).days
                hi    == max_date(run[r].normalized_df).days
            IN  /\ \A d \in lo..hi :
                      Cardinality({k \in 1..Len(dates) :
                                      dates[k].date_id = yyyymmdd(Midnight(d))}) = 1
                /\ \A k \in 1..Len(dates) :
                      \E d \in lo..hi : dates[k].date_id = yyyymmdd(Midnight(d))

Succeeded(r) == run[r].pc = "done" /\ run[r].result.status = "Success"

\* C10: load_fact_table appends exactly one fact row per normalized row, in
\* the order of the batch, with listing_id 1..N, and returns N.
C10_OneFactRowPerRow ==
    \A r \in RunIds :
        Succeeded(r) =>
            LET N    == Len(run[r].normalized_df)
                base == Len(run[r].before.fact_listings)
            IN  /\ Len(fact_listings) = base + N
                /\ SubSeq(fact_listings, 1, base) = run[r].before.fact_listings
                /\ run[r].result.rows_loaded = N
                /\ \A i \in 1..N :
                      /\ fact_listings[base + i].listing_id = i
                      /\ fact_listings[base + i].list_date = run[r].normalized_df[i].list_date
                      /\ fact_listings[base + i].price = run[r].normalized_df[i].price
                      /\ fact_listings[base + i].sqft = run[r].normalized_df[i].sqft
                      /\ fact_listings[base + i].bedrooms = run[r].normalized_df[i].bedrooms
                      /\ fact_listings[base + i].bathrooms = run[r].normalized_df[i].bathrooms
                      /\ fact_listings[base + i].price_per_sqft =
                            run[r].normalized_df[i].price_per_sqft

\* C10 witness: three rows were appended after the rows of an earlier upload,
\* one of them without a matching date row (its date_id is null)
C10_Witness ==
    \E r \in RunIds :
        /\ Succeeded(r)
        /\ Len(run[r].normalized_df) = 3
        /\ run[r].before.fact_listings # <<>>
        /\ Len(fact_listings) = Len(run[r].before.fact_listings) + 3
        /\ \E i \in 1..Len(fact_listings) : fact_listings[i].date_id = NaN

(***************************************************************************)
(* Claims about several runs on one warehouse                              *)
(***************************************************************************)
Started == {r \in RunIds : run[r].pc # "idle"}

AllSucceeded == Started # {} /\ \A r \in Started : Succeeded(r)

\* the invocation that started last
Latest == CHOOSE r \in Started : \A q \in Started : q <= r

\* the fact rows the batches of runs 1..k yield, in run order
RECURSIVE FactsOfRuns(_)
FactsOfRuns(k) ==
    IF k = 0 THEN <<>>
    ELSE FactsOfRuns(k - 1) \o WarehouseAfter(run[k].object.rows).fact_listings

C11_State ==
    AllSucceeded =>
        With(WarehouseAfter(run[Latest].object.rows), LAMBDA w :
            /\ dim_location = w.dim_location
            /\ dim_property_type = w.dim_property_type
            /\ dim_date = w.dim_date
            /\ fact_listings = FactsOfRuns(Latest))

C11_AppendOnly ==
    /\ Len(fact_listings') >= Len(fact_listings)
    /\ SubSeq(fact_listings', 1, Len(fact_listings)) = fact_listings

\* C11: after successful non-overlapping runs each stored dimension table is
\* exactly the table built from the most recent batch, fact_listings holds the
\* fact rows of every batch in run order, and no step ever removes or changes
\* a stored fact row.
C11_DimsReplacedFactsAppended == [] C11_State /\ [][C11_AppendOnly]_vars

\* C11 witness: BatchA then BatchB were loaded; the dimensions are BatchB's,
\* the facts are the two rows of BatchA followed by the three of BatchB
C11_Witness ==
    /\ AllSucceeded
    /\ Latest = 2
    /\ run[1].object.rows = BatchA
    /\ run[2].object.rows = BatchB
    /\ dim_location = run[2].dim_tables.location
    /\ dim_location # run[1].dim_tables.location
    /\ Len(dim_property_type) = 3
    /\ Len(fact_listings) = 5

ListingIdCount(i) ==
    Cardinality({j \in 1..Len(fact_listings) : fact_listings[j].listing_id = i})

BatchSize(r) == Len(run[r].normalized_df)

\* C12: listing_id restarts at 1 in every batch: for every i, fact_listings
\* holds as many rows with listing_id = i as there are successful runs whose
\* batch has at least i rows, so after k successful runs with sizes N1..Nk
\* every i <= min(N1..Nk) occurs exactly k times.
C12_ListingIdPerBatch ==
    /\ \A i \in 1..(Len(fact_listings) + 1) :
          ListingIdCount(i) =
              Cardinality({r \in RunIds : Succeeded(r) /\ BatchSize(r) >= i})
    /\ AllSucceeded =>
          \A i \in 1..Len(fact_listings) :
              (\A r \in Started : i <= BatchSize(r)) =>
                  ListingIdCount(i) = Cardinality(Started)

\* C12 witness: two batches of 2 and 3 rows loaded: listing_id 1 and 2 twice,
\* listing_id 3 once
C12_Witness ==
    /\ AllSucceeded
    /\ Cardinality(Started) = 2
    /\ ListingIdCount(1) = 2
    /\ ListingIdCount(2) = 2
    /\ ListingIdCount(3) = 1

\* rows appended to fact_listings by load jobs that completed before run r's
RECURSIVE RowsBefore(_, _)
RowsBefore(log, r) ==
    IF log = <<>> THEN 0
    ELSE IF Head(log).table # "fact_listings" THEN RowsBefore(Tail(log), r)
    ELSE IF Head(log).run = r THEN 0
    ELSE BatchSize(Head(log).run) + RowsBefore(Tail(log), r)

\* the rows of fact_listings that run r appended
FactRowsOf(r) ==
    SubSeq(fact_listings, RowsBefore(writeLog, r) + 1,
           RowsBefore(writeLog, r) + BatchSize(r))

KeySeq(dim, keycol) == [i \in 1..Len(dim) |-> dim[i][keycol]]

IsPrefix(a, b) == Len(a) <= Len(b) /\ SubSeq(b, 1, Len(a)) = a

\* some fact row of run r carries an id that the stored table stored lacks or
\* gives to another natural key than the one the row was loaded with
Orphaned(r, stored, dimname, idcol, keycol) ==
    \E j \in 1..Len(FactRowsOf(r)) :
        LET v   == FactRowsOf(r)[j][idcol]
            key == run[r].dim_tables[dimname][v][keycol]
        IN  ~ \E i \in 1..Len(stored) : stored[i][idcol] = v /\ stored[i][keycol] = key

OrphanedLocation(r) ==
    Orphaned(r, dim_location, "location", "location_id", "location")

OrphanedPropertyType(r) ==
    Orphaned(r, dim_property_type, "property_type", "property_type_id", "property_type")

\* batch A of run a and then batch B of run a + 1 are loaded, nothing after
LoadedInTurn(a) ==
    /\ a + 1 \in RunIds
    /\ Succeeded(a)
    /\ Succeeded(a + 1)
    /\ \A q \in RunIds : q > a + 1 => NoWrites(q)

\* C13 as stated: whenever B's distinct locations or property types differ
\* from A's or first appear in another order, some fact row of A is orphaned.
C13_OrphanedWheneverDifferent ==
    \A a \in RunIds :
        IF a + 1 \in RunIds
        THEN ( /\ LoadedInTurn(a)
               /\ \/ KeySeq(run[a].dim_tables.location, "location")
                        # KeySeq(run[a + 1].dim_tables.location, "location")
                  \/ KeySeq(run[a].dim_tables.property_type, "property_type")
                        # KeySeq(run[a + 1].dim_tables.property_type, "property_type") )
             => (OrphanedLocation(a) \/ OrphanedPropertyType(a))
        ELSE TRUE

\* C13 amended: fact rows of A are orphaned exactly when A's sequence of
\* distinct locations (or property types) in first-appearance order is not a
\* prefix of B's; a B that only adds new values after A's leaves A's rows
\* resolvable.
C13_OrphanedUnlessPrefix ==
    \A a \in RunIds :
        IF a + 1 \in RunIds
        THEN LoadedInTurn(a) =>
               /\ OrphanedLocation(a) <=>
                     ~IsPrefix(KeySeq(run[a].dim_tables.location, "location"),
                               KeySeq(run[a + 1].dim_tables.location, "location"))
               /\ OrphanedPropertyType(a) <=>
                     ~IsPrefix(KeySeq(run[a].dim_tables.property_type, "property_type"),
                               KeySeq(run[a + 1].dim_tables.property_type, "property_type"))
        ELSE TRUE

\* C13 witness: BatchA then BatchB: location_id 1 was Dubai Marina for the
\* rows of BatchA and is Sharjah in the stored table
C13_Witness ==
    /\ LoadedInTurn(1)
    /\ run[1].object.rows = BatchA
    /\ run[2].object.rows = BatchB
    /\ OrphanedLocation(1)
    /\ OrphanedPropertyType(1)
    /\ FactRowsOf(1)[1].location_id = 1
    /\ dim_location[1].location # run[1].dim_tables.location[1].location

WritesOf(table) == {i \in 1..Len(writeLog) : writeLog[i].table = table}

\* the run whose load job on table completed last
LastWriter(table) ==
    writeLog[CHOOSE i \in WritesOf(table) : \A j \in WritesOf(table) : j <= i].run

\* position in writeLog of run r's load job on table
WriteAt(r, table) ==
    CHOOSE i \in 1..Len(writeLog) : writeLog[i] = [run |-> r, table |-> table]

\* C14: with two overlapping runs each stored dimension table is, in every
\* state, the table built by the run that wrote it last; the rows a run
\* appended carry the foreign keys of its own dimension tables; and both runs
\* append listing_id ranges that start at 1 and overlap.
C14_LastWriterWins ==
    /\ WritesOf("dim_location") # {} =>
          dim_location = run[LastWriter("dim_location")].dim_tables.location
    /\ WritesOf("dim_property_type") # {} =>
          dim_property_type = run[LastWriter("dim_property_type")].dim_tables.property_type
    /\ WritesOf("dim_date") # {} =>
          dim_date = run[LastWriter("dim_date")].dim_tables.date
    /\ \A r \in ConcurrentRuns :
          Succeeded(r) =>
              FactRowsOf(r) = build_fact_rows(run[r].normalized_df, run[r].dim_tables)
    /\ (\A r \in ConcurrentRuns : Succeeded(r)) =>
          /\ \A r \in ConcurrentRuns : FactRowsOf(r)[1].listing_id = 1
          /\ \A i \in 1..Len(fact_listings) :
                (\A r \in ConcurrentRuns : i <= BatchSize(r)) => ListingIdCount(i) = 2

\* C14 witness: run 1 (BatchA) wrote its dimensions, run 2 (BatchB) replaced
\* all three before run 1 appended its facts: the rows of run 1 carry run 1's
\* ids while the stored dimensions are run 2's
C14_Witness ==
    /\ \A r \in ConcurrentRuns : Succeeded(r)
    /\ run[1].object.rows = BatchA
    /\ run[2].object.rows = BatchB
    /\ WriteAt(1, "dim_location") < WriteAt(2, "dim_location")
    /\ WriteAt(2, "dim_date") < WriteAt(1, "fact_listings")
    /\ WriteAt(1, "fact_listings") = Len(writeLog)
    /\ dim_location = run[2].dim_tables.location
    /\ dim_property_type = run[2].dim_tables.property_type
    /\ dim_date = run[2].dim_tables.date
    /\ dim_location # run[1].dim_tables.location
    /\ OrphanedLocation(1)
    /\ ListingIdCount(1) = 2

(***************************************************************************)
(* Claims about normalize_dataframe and the location dimension             *)
(***************************************************************************)
\* normalize_dataframe returned a batch
Normalized == variant # NoValue /\ ~norm_out.raised

\* the sorted prices the quartiles are computed on
StagePrices ==
    Sorted(Column(IF variant = "deployed" THEN rows_at_outlier_stage(raw_df)
                  ELSE rows_at_outlier_stage_root(raw_df), "price"))

C16_SaneRowsOnly ==
    Normalized =>
        \A i \in 1..Len(norm_out.rows) :
            /\ norm_out.rows[i].list_date # NaT
            /\ ~isna(norm_out.rows[i].price) /\ norm_out.rows[i].price > 0
            /\ ~isna(norm_out.rows[i].sqft) /\ norm_out.rows[i].sqft > 0
            /\ ~isna(norm_out.rows[i].bedrooms) /\ norm_out.rows[i].bedrooms >= 0
            /\ ~isna(norm_out.rows[i].bathrooms) /\ norm_out.rows[i].bathrooms > 0

CleanText(v) == v # <<>> /\ strip(v) = v /\ title(v) = v

\* C17: the location and property_type of every normalized row are non-empty,
\* trimmed and title-cased, also when the raw value is missing or blank, and a
\* missing value becomes "Unknown".
C17_CleanText ==
    Normalized =>
        /\ \A i \in 1..Len(norm_out.rows) :
              /\ CleanText(norm_out.rows[i].location)
              /\ CleanText(norm_out.rows[i].property_type)
        /\ Len(norm_out.rows) = Len(raw_df) =>
              \A i \in 1..Len(raw_df) :
                  /\ raw_df[i].location = NaNStr => norm_out.rows[i].location = s_Unknown
                  /\ raw_df[i].property_type = NaNStr =>
                        norm_out.rows[i].property_type = s_Unknown

s_DubaiMarinaDubai ==
    <<"D","u","b","a","i"," ","M","a","r","i","n","a",","," ","D","u","b","a","i">>

s_Apartment == <<"A","p","a","r","t","m","e","n","t">>

\* a normalized row that comes from the raw row of Scenario 1, the only row
\* of the model dated 2024-01-15
FromScenario1(o) ==
    /\ o.list_date = to_datetime(d_jan15)
    /\ o.price = 800000 * Fx
    /\ o.sqft = 1200 * Fx

\* C18: the raw row of Scenario 1 (2024-01-15, "  dubai marina, dubai ",
\* "apartment", 800000, 2, 2, 1200), when it survives, is emitted with location
\* "Dubai Marina, Dubai", property_type "Apartment", price_per_sqft 666.67.
C18_Scenario1 ==
    (Normalized /\ variant = "deployed") =>
        \A i \in 1..Len(norm_out.rows) :
            FromScenario1(norm_out.rows[i]) =>
                /\ norm_out.rows[i].location = s_DubaiMarinaDubai
                /\ norm_out.rows[i].property_type = s_Apartment
                /\ norm_out.rows[i].price_per_sqft = 66667

\* C18 witness: the row of Scenario 1 survived in a batch of two
C18_Witness ==
    /\ Normalized
    /\ variant = "deployed"
    /\ Len(raw_df) = 2
    /\ raw_df[2] = RawRow(d_jan15, s_loc_marina, w_apartment, 800000, 2, 2, 1200)
    /\ Len(norm_out.rows) = 2
    /\ FromScenario1(norm_out.rows[2])
    /\ norm_out.rows[2].price_per_sqft = 66667

Reported(stage, n) ==
    \E i \in 1..Len(norm_log) : norm_log[i] = [stage |-> stage, count |-> n]

Mentions(stage) == \E i \in 1..Len(norm_log) : norm_log[i].stage = stage

\* rows each dropping stage of the deployed normalize_dataframe removes
DroppedByDates == Len(raw_df) - Len(step_dates(raw_df))

DroppedByCritical ==
    Len(step_dates(raw_df)) - Len(rows_at_outlier_stage(raw_df))

DroppedByOutliers ==
    Len(rows_at_outlier_stage(raw_df)) - Len(step_outliers(rows_at_outlier_stage(raw_df)))

DroppedByMinimums ==
    Len(step_outliers(rows_at_outlier_stage(raw_df))) - Len(norm_out.rows)

OnlyDatesDropped ==
    DroppedByCritical = 0 /\ DroppedByOutliers = 0 /\ DroppedByMinimums = 0

\* C19 as stated: the normalizer reports the count of rows dropped at each
\* stage, and with k unparseable dates and no later removal the batch has
\* n - k rows and the reported count of the date stage is k.
C19_CountsPerStage ==
    (Normalized /\ variant = "deployed") =>
        /\ DroppedByDates > 0 => Reported("invalid dates", DroppedByDates)
        /\ DroppedByCritical > 0 => Reported("critical fields", DroppedByCritical)
        /\ DroppedByOutliers > 0 => Reported("outliers", DroppedByOutliers)
        /\ DroppedByMinimums > 0 => Reported("minimums", DroppedByMinimums)
        /\ OnlyDatesDropped => Len(norm_out.rows) = Len(raw_df) - DroppedByDates

\* C19 amended: normalize_dataframe returns the batch alone and prints counts:
\* the rows dropped for their date and the outliers removed, each only when
\* not zero, and always original rows, final rows and rows removed in total;
\* the critical-field and minimum filters print no count.  With k unparseable
\* dates and no later removal the batch has n - k rows and, for k > 0, the
\* printed date count is k.
C19_PrintedCounts ==
    (Normalized /\ variant = "deployed") =>
        /\ DOMAIN norm_out = {"raised", "error", "rows"}
        /\ Mentions("invalid dates") <=> DroppedByDates > 0
        /\ DroppedByDates > 0 => Reported("invalid dates", DroppedByDates)
        /\ Mentions("outliers") <=> DroppedByOutliers > 0
        /\ DroppedByOutliers > 0 => Reported("outliers", DroppedByOutliers)
        /\ ~Mentions("critical fields") /\ ~Mentions("minimums")
        /\ Reported("original rows", Len(raw_df))
        /\ Reported("final rows", Len(norm_out.rows))
        /\ Reported("removed", Len(raw_df) - Len(norm_out.rows))
        /\ OnlyDatesDropped => Len(norm_out.rows) = Len(raw_df) - DroppedByDates

\* C19 witness: three rows, one with an unparseable date, nothing else dropped
C19_Witness ==
    /\ Normalized
    /\ variant = "deployed"
    /\ Len(raw_df) = 3
    /\ DroppedByDates = 1
    /\ OnlyDatesDropped
    /\ Len(norm_out.rows) = 2
    /\ Reported("invalid dates", 1)
    /\ Reported("removed", 1)

\* C20: building the location dimension never fails, and each row has city =
\* the trimmed text before the first comma and state = the trimmed text after
\* it, or city = the whole string and state = null without a comma, in both
\* variants.
C20_LocationSplit ==
    loc_out # NoOutput =>
        /\ ~loc_out.raised
        /\ \A i \in 1..Len(loc_out.rows) :
              LET l == loc_out.rows[i].location
                  c == FirstComma(l)
              IN  IF c > 0
                  THEN /\ loc_out.rows[i].city = strip(SubSeq(l, 1, c - 1))
                       /\ loc_out.rows[i].state = strip(SubSeq(l, c + 1, Len(l)))
                  ELSE /\ loc_out.rows[i].city = l
                       /\ loc_out.rows[i].state = NoneStr

(***************************************************************************)
(* Claims about rebuilding the dimensions                                  *)
(***************************************************************************)
\* call r and the call before it returned, and no later call has started
RebuiltAgain(r) ==
    /\ r > 1
    /\ run[r].pc = "done"
    /\ run[r - 1].pc = "done"
    /\ \A q \in RunIds : q > r => run[q].pc = "idle"

RebuiltTwice == RebuiltAgain(2)

StoredDimensions(w) == <<w.dim_location, w.dim_property_type, w.dim_date>>

\* the tables with their created_at column set aside
ButCreatedAt(dims) == <<Stamp(dims[1], 0), Stamp(dims[2], 0), dims[3]>>

ReturnedDimensions(r) ==
    <<run[r].dim_tables.location, run[r].dim_tables.property_type, run[r].dim_tables.date>>

\* C21 as stated: a further call on the same normalized batch returns tables
\* identical to the previous call's, and the stored dimensions after it equal
\* those after the previous call.
C21_RebuildIdentical ==
    \A r \in RunIds :
        RebuiltAgain(r) =>
            /\ ReturnedDimensions(r) = ReturnedDimensions(r - 1)
            /\ StoredDimensions(Warehouse) = StoredDimensions(run[r].before)

\* C21: a further call on the same normalized batch returns, and stores, the
\* same rows as the previous call with the same surrogate ids and the same
\* attributes in every column but created_at; dim_date, which has no such
\* column, is identical.
C21_RebuildIdenticalButCreatedAt ==
    \A r \in RunIds :
        RebuiltAgain(r) =>
            /\ ButCreatedAt(ReturnedDimensions(r)) = ButCreatedAt(ReturnedDimensions(r - 1))
            /\ ButCreatedAt(StoredDimensions(Warehouse))
                   = ButCreatedAt(StoredDimensions(run[r].before))
            /\ StoredDimensions(Warehouse) = ReturnedDimensions(r)

\* C21 witness: a batch with two locations and two property types over
\* several days was built twice on a warehouse that held other rows before
C21_Witness ==
    /\ RebuiltTwice
    /\ Len(dim_location) = 2
    /\ Len(dim_property_type) = 2
    /\ Len(dim_date) >= 2
    /\ run[1].before.dim_location # <<>>
    /\ run[1].before.dim_location # dim_location
    /\ dim_location[1].created_at # run[1].dim_tables.location[1].created_at

(***************************************************************************)
(* Claims about the response and the effects of generate_report            *)
(***************************************************************************)
SuccessKeys ==
    {"status", "timestamp", "html_report", "json_report", "queries_executed",
     "public_html_url"}

\* C22: generate_report always ends with a response: 200 and the six-key
\* success body when the queries were run, the report was rendered and both
\* objects were uploaded; 500 and the body {status: "error", error} when a
\* step raised; nothing is returned before the run is over.
C22_AlwaysResponds ==
    /\ ~ReportDone => response.code = 0
    /\ (ReportDone /\ raisedAt = NoValue) =>
          /\ response.code = 200
          /\ DOMAIN response.body = SuccessKeys
          /\ response.body.status = "success"
          /\ response.body.queries_executed = Len(QueryNames)
          /\ {html_filename, json_filename} \subseteq reportStore
    /\ (ReportDone /\ raisedAt # NoValue) =>
          /\ response.code = 500
          /\ DOMAIN response.body = {"status", "error"}
          /\ response.body.status = "error"
          /\ response.body.error = raisedAt

\* C22 witness: the HTML report was uploaded, the upload of the JSON report
\* raised, and the caller got 500 with the error body
C22_Witness ==
    /\ ReportDone
    /\ raisedAt = "upload_json"
    /\ html_filename \in reportStore
    /\ response.code = 500
    /\ response.body = ErrorBody("upload_json")

C27_WarehouseUnchanged ==
    UNCHANGED <<dim_location, dim_property_type, dim_date, fact_listings, writeLog>>

C27_OnlyReports == reportStore \subseteq {html_filename, json_filename}

\* C27: no step of a reporting run, successful or not and whichever queries
\* fail, changes dim_location, dim_property_type, dim_date or fact_listings;
\* the objects it writes are the two reports under reports/.
C27_ReportReadOnly == [][C27_WarehouseUnchanged]_vars /\ [] C27_OnlyReports

\* C27 witness: a run ended with 200 and both reports stored, on a populated
\* warehouse that is as it was before
C27_Witness ==
    /\ ReportDone
    /\ response.code = 200
    /\ reportStore = {html_filename, json_filename}
    /\ fact_listings = WarehouseAfter(SeedBatch).fact_listings
    /\ dim_location = WarehouseAfter(SeedBatch).dim_location

(***************************************************************************)
(* Claims about the derived field and the imputation                       *)
(***************************************************************************)
\* price_per_sqft * sqft - price of an output row o, in units of 1/Fx of a
\* cent: with price = a * sqft + r it is (price_per_sqft - a) * sqft - r
Deviation(o) ==
    (o.price_per_sqft - Fx * (o.price \div o.sqft)) * o.sqft - Fx * (o.price % o.sqft)

Abs(x) == IF x < 0 THEN -x ELSE x

\* the output rows whose price / sqft is a number
Priced == {i \in 1..Len(norm_out.rows) : ~isna(norm_out.rows[i].price_per_sqft)}

RECURSIVE SumOver(_, _)
SumOver(F(_), S) ==
    IF S = {} THEN 0
    ELSE LET i == CHOOSE i \in S : TRUE IN F(i) + SumOver(F, S \ {i})

Dated == step_dates(raw_df)

\* the value of column col an output row has for the dated row d: its own,
\* or the median of the non-missing values of the dated rows
Imputed(d, col) == IF isna(d[col]) THEN median(Dated, col) ELSE d[col]

ImputedFrom(o, d) ==
    /\ o.list_date = d.list_date
    /\ o.price = Imputed(d, "price")
    /\ o.sqft = Imputed(d, "sqft")
    /\ o.bathrooms = Imputed(d, "bathrooms")

\* C24: in both variants every output row is a row whose list_date parsed,
\* with a missing price, sqft or bathrooms replaced by the median of the
\* non-missing values of that column over all the rows whose list_date
\* parsed: the rows with an unparseable date are not counted and the rows
\* removed afterwards (outliers, minimums) are.
C24_MedianOverDated ==
    Normalized =>
        \A i \in 1..Len(norm_out.rows) :
            \E j \in 1..Len(Dated) : ImputedFrom(norm_out.rows[i], Dated[j])

\* C24 witness: prices 800000 and 0 with a parsed date, 850000 with an
\* unparseable one, and a row without price: it is emitted with 400000, the
\* median of 800000 and 0, although the row with price 0 is dropped later
C24_Witness ==
    /\ Normalized
    /\ variant = "deployed"
    /\ Len(raw_df) = 4
    /\ Len(Dated) = 3
    /\ \E j \in 1..Len(Dated) : Dated[j].price = 0
    /\ \E j \in 1..Len(Dated) : isna(Dated[j].price)
    /\ median(Dated, "price") = Fx * 400000
    /\ Len(norm_out.rows) = 2
    /\ \E i \in 1..Len(norm_out.rows) : norm_out.rows[i].price = Fx * 400000

\* a row whose list_date parses has no bedrooms
MissingBedrooms == \E j \in 1..Len(Dated) : isna(Dated[j].bedrooms)

\* C25: whenever the batch has rows with a missing bedrooms value,
\* normalization completes and every output row's bedrooms is a non-negative
\* integer.
C25_BedroomsImputed ==
    (variant # NoValue /\ MissingBedrooms) =>
        /\ ~norm_out.raised
        /\ \A i \in 1..Len(norm_out.rows) :
              /\ ~isna(norm_out.rows[i].bedrooms)
              /\ norm_out.rows[i].bedrooms >= 0
              /\ norm_out.rows[i].bedrooms % Fx = 0

(***************************************************************************)
(* Claims about the order and the atomicity of the writes of one run       *)
(***************************************************************************)
WriteOrder == <<"dim_location", "dim_property_type", "dim_date", "fact_listings">>

\* the tables the load jobs of run r replaced or extended, in order
TablesWritten(r) ==
    LET Mine(e) == e.run = r
        mine    == SelectSeq(writeLog, Mine)
    IN  [i \in 1..Len(mine) |-> mine[i].table]

\* the table run r built for the i-th write
BuiltTable(r, i) ==
    CASE i = 1 -> run[r].dim_tables.location
      [] i = 2 -> run[r].dim_tables.property_type
      [] i = 3 -> run[r].dim_tables.date

WriteFailed(r) == run[r].pc = "raised" /\ run[r].result.error = "load job failed"

\* C26: the load jobs of a run complete in the order dim_location,
\* dim_property_type, dim_date, fact_listings, each at most once; when one of
\* them fails the run ends raised without a result, the tables written before
\* hold what this run built, the others are as the run found them, and
\* fact_listings has none of its rows.
C26_OrderedNoRollback ==
    \A r \in RunIds :
        LET k == Len(TablesWritten(r)) IN
        /\ k <= Len(WriteOrder)
        /\ TablesWritten(r) = SubSeq(WriteOrder, 1, k)
        /\ WriteFailed(r) =>
              /\ k < Len(WriteOrder)
              /\ run[r].result.code = 0
              /\ \A i \in 1..k : Warehouse[WriteOrder[i]] = BuiltTable(r, i)
              /\ \A i \in (k + 1)..Len(WriteOrder) :
                    Warehouse[WriteOrder[i]] = run[r].before[WriteOrder[i]]

\* C26 witness: the load of fact_listings failed after the three dimensions
\* of an earlier upload had been replaced; the fact rows are the earlier ones
C26_Witness ==
    /\ WriteFailed(1)
    /\ TablesWritten(1) = SubSeq(WriteOrder, 1, 3)
    /\ run[1].before.dim_location # <<>>
    /\ dim_location # run[1].before.dim_location
    /\ dim_property_type # run[1].before.dim_property_type
    /\ dim_date # run[1].before.dim_date
    /\ fact_listings = run[1].before.fact_listings
    /\ fact_listings # <<>>

(***************************************************************************)
(* Claims about the foreign keys of the fact rows of one run               *)
(***************************************************************************)
\* the fact row run r appended for its i-th normalized row
Appended(r, i) == fact_listings[Len(run[r].before.fact_listings) + i]

\* the rows of a stored dimension whose id column holds id
RowsWithId(dim, idcol, id) == {k \in 1..Len(dim) : dim[k][idcol] = id}

\* the foreign key fk names exactly one row of the stored dimension, and
\* that row has the natural key nk
Resolves(dim, idcol, fk, keycol, nk) ==
    /\ ~isna(fk)
    /\ Cardinality(RowsWithId(dim, idcol, fk)) = 1
    /\ \A k \in RowsWithId(dim, idcol, fk) : dim[k][keycol] = nk

\* the date row fk names is the day of the timestamp t
ResolvesDay(fk, t) ==
    /\ ~isna(fk)
    /\ Cardinality(RowsWithId(dim_date, "date_id", fk)) = 1
    /\ \A k \in RowsWithId(dim_date, "date_id", fk) : dim_date[k].full_date.days = t.days

LocationKeysResolve(r) ==
    \A i \in 1..Len(run[r].normalized_df) :
        /\ Resolves(dim_location, "location_id", Appended(r, i).location_id,
                    "location", run[r].normalized_df[i].location)
        /\ Resolves(dim_property_type, "property_type_id", Appended(r, i).property_type_id,
                    "property_type", run[r].normalized_df[i].property_type)

DateKeysResolve(r) ==
    \A i \in 1..Len(run[r].normalized_df) :
        ResolvesDay(Appended(r, i).date_id, run[r].normalized_df[i].list_date)

\* C28: right after a successful run every fact row it appended has non-null
\* location_id, property_type_id and date_id, each naming the stored
\* dimension row with the fact row's own location, property_type and day,
\* also when list_date carries a time of day.
C28_ForeignKeysResolve ==
    \A r \in RunIds : Succeeded(r) => LocationKeysResolve(r) /\ DateKeysResolve(r)

\* the raw strings a and b differ at most in letter case and in leading or
\* trailing whitespace
SameButCaseAndSpace(a, b) == a # NaNStr /\ b # NaNStr /\ lower(strip(a)) = lower(strip(b))

\* the rows of the normalized batch of run r with the value v in column col
\* all got the foreign key of the one dimension row with that value
OneKey(r, dim, idcol, col, v) ==
    /\ Cardinality({k \in 1..Len(dim) : dim[k][col] = v}) <= 1
    /\ \A i \in 1..Len(run[r].normalized_df) :
          run[r].normalized_df[i][col] = v =>
              Resolves(dim, idcol, Appended(r, i)[idcol], col, v)

\* C29: raw rows of a batch whose location, or whose property_type, differ
\* only in letter case or in leading and trailing whitespace are normalized
\* to one string, for which the run stores a single dimension row, and the
\* fact rows of the batch with that string carry that row's id.
C29_CaseAndSpaceMerged ==
    \A r \in RunIds :
        Succeeded(r) =>
            \A i, j \in 1..Len(run[r].df.rows) :
                LET x == run[r].df.rows[i]
                    y == run[r].df.rows[j]
                IN  /\ SameButCaseAndSpace(x.location, y.location) =>
                          /\ standardize_text(x.location) = standardize_text(y.location)
                          /\ OneKey(r, dim_location, "location_id", "location",
                                    standardize_text(x.location))
                    /\ SameButCaseAndSpace(x.property_type, y.property_type) =>
                          /\ standardize_text(x.property_type) = standardize_text(y.property_type)
                          /\ OneKey(r, dim_property_type, "property_type_id", "property_type",
                                    standardize_text(x.property_type))

\* C29 witness: "  dubai marina, dubai " with apartment and
\* "DUBAI MARINA, DUBAI" with " APARTMENT" in one batch: one location row,
\* one property type row, and both fact rows with the ids 1 and 1
C29_Witness ==
    /\ Succeeded(1)
    /\ Len(run[1].df.rows) = 2
    /\ run[1].df.rows[1].location = s_loc_marina
    /\ run[1].df.rows[2].location = s_loc_MARINA
    /\ run[1].df.rows[1].property_type = w_apartment
    /\ run[1].df.rows[2].property_type = s_type_APARTMENT
    /\ Len(run[1].normalized_df) = 2
    /\ Len(dim_location) = 1
    /\ Len(dim_property_type) = 1
    /\ Appended(1, 1).location_id = 1 /\ Appended(1, 2).location_id = 1
    /\ Appended(1, 1).property_type_id = 1 /\ Appended(1, 2).property_type_id = 1

====
